---------------------------- MODULE Spec2Model ----------------------------
(***************************************************************************)
(* A model of sealdb's SQL front end and planning core:                    *)
(*   - the two hand-written lexers  (src/sql/lexer.cpp and                 *)
(*     src/sql/parser/seal/lexer.cpp),                                     *)
(*   - the two recursive-descent parsers (src/sql/parser.cpp and           *)
(*     src/sql/parser/seal/parser.cpp) and the SealParser front end,       *)
(*   - the Planner (src/sql/planner/planner.cpp) and the Optimizer         *)
(*     (src/planner/optimizer.cpp).                                        *)
(* Definitions prefixed L_ model the code under src/sql/, those prefixed   *)
(* S_ the code under src/sql/parser/seal/; Lexer_ and Parser_ helpers are  *)
(* textually identical in both.  SQL text is a sequence of one-character   *)
(* strings.                                                                *)
(***************************************************************************)
EXTENDS Integers, Sequences, FiniteSets, TLC

----------------------------------------------------------------------------
(* Characters and words                                                    *)

Word ==
  "SELECT" :> <<"S","E","L","E","C","T">>
  @@ "INSERT" :> <<"I","N","S","E","R","T">>
  @@ "UPDATE" :> <<"U","P","D","A","T","E">>
  @@ "DELETE" :> <<"D","E","L","E","T","E">>
  @@ "CREATE" :> <<"C","R","E","A","T","E">>
  @@ "DROP" :> <<"D","R","O","P">>
  @@ "ALTER" :> <<"A","L","T","E","R">>
  @@ "TABLE" :> <<"T","A","B","L","E">>
  @@ "INDEX" :> <<"I","N","D","E","X">>
  @@ "VIEW" :> <<"V","I","E","W">>
  @@ "FROM" :> <<"F","R","O","M">>
  @@ "WHERE" :> <<"W","H","E","R","E">>
  @@ "GROUP" :> <<"G","R","O","U","P">>
  @@ "BY" :> <<"B","Y">>
  @@ "ORDER" :> <<"O","R","D","E","R">>
  @@ "HAVING" :> <<"H","A","V","I","N","G">>
  @@ "LIMIT" :> <<"L","I","M","I","T">>
  @@ "OFFSET" :> <<"O","F","F","S","E","T">>
  @@ "JOIN" :> <<"J","O","I","N">>
  @@ "LEFT" :> <<"L","E","F","T">>
  @@ "RIGHT" :> <<"R","I","G","H","T">>
  @@ "INNER" :> <<"I","N","N","E","R">>
  @@ "OUTER" :> <<"O","U","T","E","R">>
  @@ "ON" :> <<"O","N">>
  @@ "AS" :> <<"A","S">>
  @@ "AND" :> <<"A","N","D">>
  @@ "OR" :> <<"O","R">>
  @@ "NOT" :> <<"N","O","T">>
  @@ "IN" :> <<"I","N">>
  @@ "INTO" :> <<"I","N","T","O">>
  @@ "VALUES" :> <<"V","A","L","U","E","S">>
  @@ "EXISTS" :> <<"E","X","I","S","T","S">>
  @@ "BETWEEN" :> <<"B","E","T","W","E","E","N">>
  @@ "LIKE" :> <<"L","I","K","E">>
  @@ "IS" :> <<"I","S">>
  @@ "NULL" :> <<"N","U","L","L">>
  @@ "DISTINCT" :> <<"D","I","S","T","I","N","C","T">>
  @@ "COUNT" :> <<"C","O","U","N","T">>
  @@ "SUM" :> <<"S","U","M">>
  @@ "AVG" :> <<"A","V","G">>
  @@ "MAX" :> <<"M","A","X">>
  @@ "MIN" :> <<"M","I","N">>
  @@ "PRIMARY" :> <<"P","R","I","M","A","R","Y">>
  @@ "KEY" :> <<"K","E","Y">>
  @@ "FOREIGN" :> <<"F","O","R","E","I","G","N">>
  @@ "REFERENCES" :> <<"R","E","F","E","R","E","N","C","E","S">>
  @@ "UNIQUE" :> <<"U","N","I","Q","U","E">>
  @@ "CHECK" :> <<"C","H","E","C","K">>
  @@ "DEFAULT" :> <<"D","E","F","A","U","L","T">>
  @@ "CONSTRAINT" :> <<"C","O","N","S","T","R","A","I","N","T">>
  @@ "CASCADE" :> <<"C","A","S","C","A","D","E">>
  @@ "RESTRICT" :> <<"R","E","S","T","R","I","C","T">>
  @@ "SET" :> <<"S","E","T">>
  @@ "INT" :> <<"I","N","T">>
  @@ "INTEGER" :> <<"I","N","T","E","G","E","R">>
  @@ "BIGINT" :> <<"B","I","G","I","N","T">>
  @@ "SMALLINT" :> <<"S","M","A","L","L","I","N","T">>
  @@ "TINYINT" :> <<"T","I","N","Y","I","N","T">>
  @@ "FLOAT" :> <<"F","L","O","A","T">>
  @@ "DOUBLE" :> <<"D","O","U","B","L","E">>
  @@ "DECIMAL" :> <<"D","E","C","I","M","A","L">>
  @@ "NUMERIC" :> <<"N","U","M","E","R","I","C">>
  @@ "CHAR" :> <<"C","H","A","R">>
  @@ "VARCHAR" :> <<"V","A","R","C","H","A","R">>
  @@ "TEXT" :> <<"T","E","X","T">>
  @@ "BLOB" :> <<"B","L","O","B">>
  @@ "DATE" :> <<"D","A","T","E">>
  @@ "TIME" :> <<"T","I","M","E">>
  @@ "DATETIME" :> <<"D","A","T","E","T","I","M","E">>
  @@ "TIMESTAMP" :> <<"T","I","M","E","S","T","A","M","P">>
  @@ "BOOLEAN" :> <<"B","O","O","L","E","A","N">>
  @@ "BOOL" :> <<"B","O","O","L">>
  @@ "users" :> <<"u","s","e","r","s">>
  @@ "id" :> <<"i","d">>
  @@ "name" :> <<"n","a","m","e">>
  @@ "age" :> <<"a","g","e">>
  @@ "John" :> <<"J","o","h","n">>
  @@ "t" :> <<"t">>
  @@ "a" :> <<"a">>
  @@ "b" :> <<"b">>
  @@ "c" :> <<"c">>
  @@ "x" :> <<"x">>
  @@ "select" :> <<"s","e","l","e","c","t">>
  @@ "from" :> <<"f","r","o","m">>

LowerLetters == {"a", "b", "c", "d", "e", "f", "g", "h", "i", "j", "k", "l", "m", "n", "o", "p", "q", "r", "s", "t", "u", "v", "w", "x", "y", "z"}
UpperLetters == {"A", "B", "C", "D", "E", "F", "G", "H", "I", "J", "K", "L", "M", "N", "O", "P", "Q", "R", "S", "T", "U", "V", "W", "X", "Y", "Z"}
toupper(ch) ==
  CASE ch = "a" -> "A"
    [] ch = "b" -> "B"
    [] ch = "c" -> "C"
    [] ch = "d" -> "D"
    [] ch = "e" -> "E"
    [] ch = "f" -> "F"
    [] ch = "g" -> "G"
    [] ch = "h" -> "H"
    [] ch = "i" -> "I"
    [] ch = "j" -> "J"
    [] ch = "k" -> "K"
    [] ch = "l" -> "L"
    [] ch = "m" -> "M"
    [] ch = "n" -> "N"
    [] ch = "o" -> "O"
    [] ch = "p" -> "P"
    [] ch = "q" -> "Q"
    [] ch = "r" -> "R"
    [] ch = "s" -> "S"
    [] ch = "t" -> "T"
    [] ch = "u" -> "U"
    [] ch = "v" -> "V"
    [] ch = "w" -> "W"
    [] ch = "x" -> "X"
    [] ch = "y" -> "Y"
    [] ch = "z" -> "Z"
    [] OTHER -> ch

Digits == {"0", "1", "2", "3", "4", "5", "6", "7", "8", "9"}

\* The character current_char()/peek_char() return past the end of input.
NUL == "NUL"

Upper(word) == [i \in 1..Len(word) |-> toupper(word[i])]

is_alpha(ch) == ch \in LowerLetters \/ ch \in UpperLetters \/ ch = "_"

is_digit(ch) == ch \in Digits

is_alphanumeric(ch) == is_alpha(ch) \/ is_digit(ch)

is_whitespace(ch) == ch \in {" ", "\t", "\n", "\r"}

L_is_operator_start(ch) ==
  ch \in {"+", "-", "*", "/", "%", "=", "<", ">", "!", ".", ",", ";", "(", ")"}

S_is_operator_start(ch) ==
  ch \in {"+", "-", "*", "/", "%", "=", "<", ">", "!", ".", ",", ";",
          "(", ")", "[", "]", "{", "}"}

\* The keyword tables; a keyword's token type carries the keyword's name,
\* except NULL, whose type is NULL_VALUE.
L_keywords ==
  {"SELECT", "INSERT", "UPDATE", "DELETE", "CREATE", "DROP", "ALTER", "TABLE",
   "INDEX", "FROM", "WHERE", "GROUP", "BY", "ORDER", "HAVING", "LIMIT",
   "OFFSET", "JOIN", "LEFT", "RIGHT", "INNER", "OUTER", "ON", "AS", "AND",
   "OR", "NOT", "IN", "EXISTS", "BETWEEN", "LIKE", "IS", "NULL", "DISTINCT",
   "COUNT", "SUM", "AVG", "MAX", "MIN", "PRIMARY", "KEY", "FOREIGN",
   "REFERENCES", "UNIQUE", "CHECK", "DEFAULT", "CONSTRAINT", "CASCADE",
   "RESTRICT", "SET", "INT", "INTEGER", "BIGINT", "SMALLINT", "TINYINT",
   "FLOAT", "DOUBLE", "DECIMAL", "NUMERIC", "CHAR", "VARCHAR", "TEXT", "BLOB",
   "DATE", "TIME", "DATETIME", "TIMESTAMP", "BOOLEAN", "BOOL"}

S_keywords == L_keywords \cup {"VIEW", "INTO", "VALUES"}

KeywordType(k) == IF k = "NULL" THEN "NULL_VALUE" ELSE k

Token(type, value, line, column) ==
  [type |-> type, value |-> value, line |-> line, column |-> column]

----------------------------------------------------------------------------
(* Lexer: the position state is lx = [pos, line, col]                      *)

is_eof(in, lx) == lx.pos >= Len(in)

current_char(in, lx) == IF lx.pos < Len(in) THEN in[lx.pos + 1] ELSE NUL

peek_char(in, lx) == IF lx.pos + 1 < Len(in) THEN in[lx.pos + 2] ELSE NUL

Lexer_advance(in, lx) ==
  IF current_char(in, lx) = "\n"
  THEN [pos |-> lx.pos + 1, line |-> lx.line + 1, col |-> 1]
  ELSE [pos |-> lx.pos + 1, line |-> lx.line, col |-> lx.col + 1]

RECURSIVE skip_whitespace(_, _)
skip_whitespace(in, lx) ==
  IF ~is_eof(in, lx) /\ is_whitespace(current_char(in, lx))
  THEN skip_whitespace(in, Lexer_advance(in, lx))
  ELSE lx

\* while (!is_eof() && is_alphanumeric(current_char())) advance();
RECURSIVE ScanAlphanumeric(_, _)
ScanAlphanumeric(in, lx) ==
  IF ~is_eof(in, lx) /\ is_alphanumeric(current_char(in, lx))
  THEN ScanAlphanumeric(in, Lexer_advance(in, lx))
  ELSE lx

\* while (!is_eof() && is_digit(current_char())) advance();
RECURSIVE ScanDigits(_, _)
ScanDigits(in, lx) ==
  IF ~is_eof(in, lx) /\ is_digit(current_char(in, lx))
  THEN ScanDigits(in, Lexer_advance(in, lx))
  ELSE lx

\* input_.substr(start, end - start), positions counted from 0
substr(in, start, end) == SubSeq(in, start + 1, end)

create_error_token(message, lx) == Token("ERROR", message, lx.line, lx.col)

LookupKeyword(keywords, word) ==
  LET up == Upper(word)
  IN  IF \E k \in keywords : Word[k] = up
      THEN KeywordType(CHOOSE k \in keywords : Word[k] = up)
      ELSE "IDENTIFIER"

(* ---- src/sql/lexer.cpp ---- *)

L_read_keyword_or_identifier(in, lx) ==
  LET end  == ScanAlphanumeric(in, lx)
      word == substr(in, lx.pos, end.pos)
  IN  [tok |-> Token(LookupKeyword(L_keywords, word), word, lx.line, lx.col),
       lx  |-> end]

L_read_number(in, lx) ==
  LET int  == ScanDigits(in, lx)
      frac == IF ~is_eof(in, int) /\ current_char(in, int) = "."
              THEN ScanDigits(in, Lexer_advance(in, int))
              ELSE int
      sign == IF ~is_eof(in, frac) /\ current_char(in, frac) \in {"e", "E"}
              THEN LET e == Lexer_advance(in, frac)
                   IN  IF ~is_eof(in, e) /\ current_char(in, e) \in {"+", "-"}
                       THEN Lexer_advance(in, e)
                       ELSE e
              ELSE frac
      end  == IF sign.pos > frac.pos THEN ScanDigits(in, sign) ELSE frac
  IN  [tok |-> Token("NUMBER_LITERAL", substr(in, lx.pos, end.pos), lx.line, lx.col),
       lx  |-> end]

\* The body loop of read_string: r = [lx, value]
RECURSIVE L_StringBody(_, _, _)
L_StringBody(in, quote, r) ==
  IF ~is_eof(in, r.lx) /\ current_char(in, r.lx) # quote
  THEN IF current_char(in, r.lx) = "\\"
       THEN LET esc == Lexer_advance(in, r.lx)
            IN  IF ~is_eof(in, esc)
                THEN L_StringBody(in, quote,
                       [lx |-> Lexer_advance(in, esc),
                        value |-> Append(r.value, current_char(in, esc))])
                ELSE L_StringBody(in, quote, [lx |-> esc, value |-> r.value])
       ELSE L_StringBody(in, quote,
              [lx |-> Lexer_advance(in, r.lx),
               value |-> Append(r.value, current_char(in, r.lx))])
  ELSE r

L_read_string(in, lx) ==
  LET quote == current_char(in, lx)
      body  == L_StringBody(in, quote, [lx |-> Lexer_advance(in, lx), value |-> <<>>])
  IN  IF is_eof(in, body.lx)
      THEN [tok |-> create_error_token(<<"Unterminated string literal">>, body.lx),
            lx  |-> body.lx]
      ELSE [tok |-> Token("STRING_LITERAL", body.value, lx.line, lx.col),
            lx  |-> Lexer_advance(in, body.lx)]

L_read_operator(in, lx) ==
  LET current == current_char(in, lx)
      next    == peek_char(in, lx)
      one     == Lexer_advance(in, lx)
      two     == Lexer_advance(in, one)
      T(type, text, after) ==
        [tok |-> Token(type, text, lx.line, lx.col), lx |-> after]
  IN  CASE current = "=" /\ next = "=" -> T("EQUAL", <<"=", "=">>, two)
        [] current = "!" /\ next = "=" -> T("NOT_EQUAL", <<"!", "=">>, two)
        [] current = "<" /\ next = "=" -> T("LESS_EQUAL", <<"<", "=">>, two)
        [] current = ">" /\ next = "=" -> T("GREATER_EQUAL", <<">", "=">>, two)
        [] OTHER ->
           CASE current = "+" -> T("PLUS", <<"+">>, one)
             [] current = "-" -> T("MINUS", <<"-">>, one)
             [] current = "*" -> T("MULTIPLY", <<"*">>, one)
             [] current = "/" -> T("DIVIDE", <<"/">>, one)
             [] current = "%" -> T("MOD", <<"%">>, one)
             [] current = "=" -> T("EQUAL", <<"=">>, one)
             [] current = "<" -> T("LESS", <<"<">>, one)
             [] current = ">" -> T("GREATER", <<">">>, one)
             [] current = "." -> T("DOT", <<".">>, one)
             [] current = "," -> T("COMMA", <<",">>, one)
             [] current = ";" -> T("SEMICOLON", <<";">>, one)
             [] current = "(" -> T("LPAREN", <<"(">>, one)
             [] current = ")" -> T("RPAREN", <<")">>, one)
             [] OTHER ->
                [tok |-> create_error_token(<<"Unknown operator: ", current>>, one),
                 lx  |-> one]

\* An unrecognized character is consumed before the error token is made.
L_NextTokenOther(in, lx) ==
  LET after == Lexer_advance(in, lx)
  IN  [tok |-> create_error_token(<<"Unexpected character: ", current_char(in, lx)>>, after),
       lx  |-> after]

L_next_token(in, lx0) ==
  LET lx      == skip_whitespace(in, lx0)
      current == current_char(in, lx)
  IN  IF is_eof(in, lx)
      THEN [tok |-> Token("END_OF_FILE", <<>>, lx.line, lx.col), lx |-> lx]
      ELSE CASE is_alpha(current) \/ current = "_" -> L_read_keyword_or_identifier(in, lx)
             [] is_digit(current)                   -> L_read_number(in, lx)
             [] current \in {"'", "\""}             -> L_read_string(in, lx)
             [] L_is_operator_start(current)        -> L_read_operator(in, lx)
             [] OTHER                               -> L_NextTokenOther(in, lx)

(* ---- src/sql/parser/seal/lexer.cpp ---- *)

\* The seal lexer takes a token's line and column after reading it:
\* line_ and column_ - length, in unsigned (size_t) arithmetic.
ColumnBack(col, n) == col - n

S_read_keyword_or_identifier(in, lx) ==
  LET end   == ScanAlphanumeric(in, lx)
      value == substr(in, lx.pos, end.pos)
  IN  [tok |-> Token(LookupKeyword(S_keywords, value), value, end.line,
                     ColumnBack(end.col, Len(value))),
       lx  |-> end]

S_read_number(in, lx) ==
  LET int   == ScanDigits(in, lx)
      end   == IF ~is_eof(in, int) /\ current_char(in, int) = "."
               THEN ScanDigits(in, Lexer_advance(in, int))
               ELSE int
      value == substr(in, lx.pos, end.pos)
  IN  [tok |-> Token("NUMBER_LITERAL", value, end.line, ColumnBack(end.col, Len(value))),
       lx  |-> end]

\* The body loop of read_string: a backslash makes the loop advance twice.
RECURSIVE S_StringBody(_, _, _)
S_StringBody(in, quote, lx) ==
  IF ~is_eof(in, lx) /\ current_char(in, lx) # quote
  THEN IF current_char(in, lx) = "\\"
       THEN S_StringBody(in, quote, Lexer_advance(in, Lexer_advance(in, lx)))
       ELSE S_StringBody(in, quote, Lexer_advance(in, lx))
  ELSE lx

S_read_string(in, lx) ==
  LET quote == current_char(in, lx)
      start == Lexer_advance(in, lx)
      body  == S_StringBody(in, quote, start)
      value == substr(in, start.pos, body.pos)
      end   == Lexer_advance(in, body)
  IN  IF is_eof(in, body)
      THEN [tok |-> create_error_token(<<"Unterminated string literal">>, body),
            lx  |-> body]
      ELSE [tok |-> Token("STRING_LITERAL", value, end.line,
                          ColumnBack(end.col, Len(value) + 2)),
            lx  |-> end]

S_read_operator(in, lx) ==
  LET c    == current_char(in, lx)
      next == peek_char(in, lx)
      one  == Lexer_advance(in, lx)
      two  == Lexer_advance(in, one)
      T2(type, text) ==
        [tok |-> Token(type, text, two.line, ColumnBack(two.col, 2)), lx |-> two]
      T1(type, text) ==
        [tok |-> Token(type, text, one.line, ColumnBack(one.col, 1)), lx |-> one]
  IN  CASE c = "+" /\ next = "=" -> T2("PLUS", <<"+", "=">>)
        [] c = "-" /\ next = "=" -> T2("MINUS", <<"-", "=">>)
        [] c = "*" /\ next = "=" -> T2("MULTIPLY", <<"*", "=">>)
        [] c = "/" /\ next = "=" -> T2("DIVIDE", <<"/", "=">>)
        [] c = "=" /\ next = "=" -> T2("EQUAL", <<"=", "=">>)
        [] c = "!" /\ next = "=" -> T2("NOT_EQUAL", <<"!", "=">>)
        [] c = "<" /\ next = "=" -> T2("LESS_EQUAL", <<"<", "=">>)
        [] c = ">" /\ next = "=" -> T2("GREATER_EQUAL", <<">", "=">>)
        [] OTHER ->
           CASE c = "+" -> T1("PLUS", <<"+">>)
             [] c = "-" -> T1("MINUS", <<"-">>)
             [] c = "*" -> T1("MULTIPLY", <<"*">>)
             [] c = "/" -> T1("DIVIDE", <<"/">>)
             [] c = "%" -> T1("MOD", <<"%">>)
             [] c = "=" -> T1("ASSIGN", <<"=">>)
             [] c = "<" -> T1("LESS", <<"<">>)
             [] c = ">" -> T1("GREATER", <<">">>)
             [] c = "." -> T1("DOT", <<".">>)
             [] c = "," -> T1("COMMA", <<",">>)
             [] c = ";" -> T1("SEMICOLON", <<";">>)
             [] c = "(" -> T1("LPAREN", <<"(">>)
             [] c = ")" -> T1("RPAREN", <<")">>)
             [] c = "[" -> T1("LBRACKET", <<"[">>)
             [] c = "]" -> T1("RBRACKET", <<"]">>)
             [] c = "{" -> T1("LBRACE", <<"{">>)
             [] c = "}" -> T1("RBRACE", <<"}">>)
             [] OTHER ->
                [tok |-> create_error_token(<<"Unknown operator: ", c>>, one),
                 lx  |-> one]

\* The final else of next_token: the error token is made and the character
\* is left where it is.
S_NextTokenOther(in, lx) ==
  [tok |-> create_error_token(<<"Unexpected character: ", current_char(in, lx)>>, lx),
   lx  |-> lx]

S_next_token(in, lx0) ==
  LET lx == skip_whitespace(in, lx0)
      c  == current_char(in, lx)
  IN  IF is_eof(in, lx)
      THEN [tok |-> Token("END_OF_FILE", <<>>, lx.line, lx.col), lx |-> lx]
      ELSE CASE is_alpha(c)             -> S_read_keyword_or_identifier(in, lx)
             [] is_digit(c)             -> S_read_number(in, lx)
             [] c \in {"'", "\""}       -> S_read_string(in, lx)
             [] S_is_operator_start(c)  -> S_read_operator(in, lx)
             [] OTHER                   -> S_NextTokenOther(in, lx)

next_token(v, in, lx) ==
  IF v = "legacy" THEN L_next_token(in, lx) ELSE S_next_token(in, lx)

\* reset(): the lexer state tokenize() starts from
LexerStart == [pos |-> 0, line |-> 1, col |-> 1]

----------------------------------------------------------------------------
(* Parser state: p = [toks, cur, err]; cur is current_token_ (from 0) and  *)
(* err is error_, NoError standing for the empty string.  A parse function *)
(* returns the parser state with what it parsed: [p, e] for an expression, *)
(* [p, list] for a list, [p, stmt] for a statement.                        *)

NoError == [text |-> "", tok |-> <<>>, line |-> 0, column |-> 0]

\* Most calls of report_error kept in the log of one parse
MaxReported == 3

\* The log of report_error calls with one more call
Logged(log, text, tok) ==
  IF Len(log) < MaxReported THEN Append(log, [text |-> text, tok |-> tok]) ELSE log

\* A null pointer (statement or expression)
Null == [kind |-> "null"]

current_token(p) ==
  IF p.cur < Len(p.toks) THEN p.toks[p.cur + 1] ELSE Token("END_OF_FILE", <<>>, 0, 0)

Parser_advance(p) == IF p.cur < Len(p.toks) THEN [p EXCEPT !.cur = @ + 1] ELSE p

match(p, type) == current_token(p).type = type

has_error(p) == p.err # NoError

is_arithmetic_operator(type) == type \in {"PLUS", "MINUS", "MULTIPLY", "DIVIDE", "MOD"}

is_comparison_operator(type) ==
  type \in {"EQUAL", "NOT_EQUAL", "LESS", "LESS_EQUAL", "GREATER", "GREATER_EQUAL"}

L_is_logical_operator(type) == type \in {"AND", "OR"}

token_to_operator(type) ==
  CASE type = "PLUS"          -> "ADD"
    [] type = "MINUS"         -> "SUBTRACT"
    [] type \in {"MULTIPLY", "DIVIDE", "MOD", "EQUAL", "NOT_EQUAL", "LESS",
                 "LESS_EQUAL", "GREATER", "GREATER_EQUAL", "AND", "OR"} -> type
    [] OTHER                  -> "ADD"

BinaryExpression(op, left, right) ==
  [kind |-> "BinaryExpression", op |-> op, left |-> left, right |-> right]

\* LeftAssoc with the operands exchanged
SwappedAssoc(left, op, right) ==
  [p |-> right.p, e |-> BinaryExpression(op, right.e, left.e)]

\* left = make_unique<BinaryExpression>(op, move(left), move(right)), with
\* the parser where the right operand left it
LeftAssoc(left, op, right) ==
  [p |-> right.p, e |-> BinaryExpression(op, left.e, right.e)]

\* stmt->set_<field>(r), with the parser where r left it
SetExpression(s, field, r) == [p |-> r.p, stmt |-> [s.stmt EXCEPT ![field] = r.e]]

SetList(s, field, r) == [p |-> r.p, stmt |-> [s.stmt EXCEPT ![field] = r.list]]

(* ---- src/sql/parser.cpp ---- *)

LiteralExpression(type, value) ==
  [kind |-> "LiteralExpression", type |-> type, value |-> value]

IdentifierExpression(name) == [kind |-> "IdentifierExpression", name |-> name]

FunctionCallExpression(name, args) ==
  [kind |-> "FunctionCallExpression", name |-> name, arguments |-> args]

\* error_ is set only while it is empty; the text carries the position of
\* the current token.
L_report_error(p, text, tok) ==
  IF p.err = NoError
  THEN [p EXCEPT !.err = [text |-> text, tok |-> tok,
                          line |-> current_token(p).line,
                          column |-> current_token(p).column],
                 !.log = Logged(@, text, tok)]
  ELSE [p EXCEPT !.log = Logged(@, text, tok)]

L_match_keyword(p, keyword) == Upper(current_token(p).value) = Word[keyword]

L_consume(p, type, error_msg) ==
  IF match(p, type) THEN Parser_advance(p) ELSE L_report_error(p, error_msg, <<>>)

L_consume_keyword(p, keyword, error_msg) ==
  IF L_match_keyword(p, keyword) THEN Parser_advance(p)
  ELSE L_report_error(p, error_msg, <<>>)

RECURSIVE L_parse_expression(_), L_parse_condition(_), L_ConditionLoop(_),
          L_parse_arithmetic_expression(_), L_ArithmeticLoop(_),
          L_parse_term(_), L_TermLoop(_), L_parse_factor(_),
          L_parse_primary(_), L_ExpressionList(_, _)

L_parse_expression(p) == L_parse_condition(p)

\* while (is_comparison_operator(type) || is_logical_operator(type)) { ... }
L_ConditionLoop(left) ==
  IF is_comparison_operator(current_token(left.p).type)
     \/ L_is_logical_operator(current_token(left.p).type)
  THEN L_ConditionLoop(
         LeftAssoc(left, token_to_operator(current_token(left.p).type),
                   L_parse_arithmetic_expression(Parser_advance(left.p))))
  ELSE left

L_parse_condition(p) == L_ConditionLoop(L_parse_arithmetic_expression(p))

\* while (is_arithmetic_operator(current_token().type)) { ... }
L_ArithmeticLoop(left) ==
  IF is_arithmetic_operator(current_token(left.p).type)
  THEN L_ArithmeticLoop(
         LeftAssoc(left, token_to_operator(current_token(left.p).type),
                   L_parse_term(Parser_advance(left.p))))
  ELSE left

L_parse_arithmetic_expression(p) == L_ArithmeticLoop(L_parse_term(p))

\* while (type == MULTIPLY || type == DIVIDE || type == MOD) { ... }
L_TermLoop(left) ==
  IF current_token(left.p).type \in {"MULTIPLY", "DIVIDE", "MOD"}
  THEN L_TermLoop(
         LeftAssoc(left, token_to_operator(current_token(left.p).type),
                   L_parse_factor(Parser_advance(left.p))))
  ELSE left

L_parse_term(p) == L_TermLoop(L_parse_factor(p))

L_parse_factor(p) ==
  IF current_token(p).type = "MINUS"
  THEN LeftAssoc([p |-> p, e |-> LiteralExpression("INTEGER", <<"0">>)], "SUBTRACT",
                 L_parse_primary(Parser_advance(p)))
  ELSE L_parse_primary(p)

\* do { list.push_back(parse_expression()); }
\* while (match(TokenType::COMMA) && advance_and_return_true());
L_ExpressionList(p, list) ==
  LET Pushed(r) ==
        IF match(r.p, "COMMA")
        THEN L_ExpressionList(Parser_advance(r.p), Append(list, r.e))
        ELSE [p |-> r.p, list |-> Append(list, r.e)]
  IN  Pushed(L_parse_expression(p))

L_parse_primary(p) ==
  LET token == current_token(p)
      Call(args) ==
        [p |-> L_consume(args.p, "RPAREN", "Expected ) after function arguments"),
         e |-> FunctionCallExpression(token.value, args.list)]
      Paren(expr) ==
        [p |-> L_consume(expr.p, "RPAREN", "Expected ) after expression"), e |-> expr.e]
  IN  CASE token.type = "IDENTIFIER" ->
             IF match(Parser_advance(p), "LPAREN")
             THEN IF ~match(Parser_advance(Parser_advance(p)), "RPAREN")
                  THEN Call(L_ExpressionList(Parser_advance(Parser_advance(p)), <<>>))
                  ELSE [p |-> Parser_advance(Parser_advance(Parser_advance(p))),
                        e |-> FunctionCallExpression(token.value, <<>>)]
             ELSE [p |-> Parser_advance(p), e |-> IdentifierExpression(token.value)]
        [] token.type = "NUMBER_LITERAL" ->
             [p |-> Parser_advance(p), e |-> LiteralExpression("INTEGER", token.value)]
        [] token.type = "STRING_LITERAL" ->
             [p |-> Parser_advance(p), e |-> LiteralExpression("STRING", token.value)]
        [] token.type = "LPAREN" -> Paren(L_parse_expression(Parser_advance(p)))
        [] OTHER ->
             [p |-> L_report_error(p, "Unexpected token type in parse_primary: ", token.value),
              e |-> Null]

\* do { names.push_back(current_token().value); consume(IDENTIFIER, msg); }
\* while (match(TokenType::COMMA) && advance_and_return_true());
RECURSIVE L_NameList(_, _, _)
L_NameList(p, error_msg, names) ==
  LET Pushed(p1) ==
        IF match(p1, "COMMA")
        THEN L_NameList(Parser_advance(p1), error_msg, Append(names, current_token(p).value))
        ELSE [p |-> p1, list |-> Append(names, current_token(p).value)]
  IN  Pushed(L_consume(p, "IDENTIFIER", error_msg))

L_parse_from_clause(p) == L_NameList(p, "Expected table name", <<>>)

L_parse_column_list(p) == L_NameList(p, "Expected column name", <<>>)

\* One row of VALUES, then the outer do-while over rows
RECURSIVE L_parse_values_list(_, _)
L_parse_values_list(p, values) ==
  LET Closed(p2, row) ==
        IF match(p2, "COMMA")
        THEN L_parse_values_list(Parser_advance(p2), Append(values, row.list))
        ELSE [p |-> p2, list |-> Append(values, row.list)]
      Row(row) == Closed(L_consume(row.p, "RPAREN", "Expected ) after values"), row)
  IN  Row(L_ExpressionList(L_consume(p, "LPAREN", "Expected ( before values"), <<>>))

RECURSIVE L_parse_set_clause(_, _)
L_parse_set_clause(p, set_clause) ==
  LET Pushed(value) ==
        IF match(value.p, "COMMA")
        THEN L_parse_set_clause(Parser_advance(value.p),
                                Append(set_clause, <<current_token(p).value, value.e>>))
        ELSE [p |-> value.p,
              list |-> Append(set_clause, <<current_token(p).value, value.e>>)]
  IN  Pushed(L_parse_expression(
        L_consume(L_consume(p, "IDENTIFIER", "Expected column name"),
                  "ASSIGN", "Expected = after column name")))

\* An optional clause: `if (match_keyword(K)) { x = parse_...(); }`.  The
\* keyword is tested and not consumed.
L_OptionalExpression(p, keyword) ==
  IF L_match_keyword(p, keyword) THEN L_parse_expression(p) ELSE [p |-> p, e |-> Null]

L_OptionalByList(p, keyword, error_msg) ==
  IF L_match_keyword(p, keyword)
  THEN L_ExpressionList(L_consume_keyword(p, "BY", error_msg), <<>>)
  ELSE [p |-> p, list |-> <<>>]

L_parse_select(p) ==
  LET SelectList(s) == SetList(s, "select_list", L_ExpressionList(s.p, <<>>))
      From(s) ==
        IF L_match_keyword(s.p, "FROM")
        THEN SetList(s, "from_tables", L_parse_from_clause(s.p))
        ELSE s
      Where(s) == SetExpression(s, "where_clause", L_OptionalExpression(s.p, "WHERE"))
      GroupBy(s) ==
        SetList(s, "group_by", L_OptionalByList(s.p, "GROUP", "Expected BY after GROUP"))
      Having(s) == SetExpression(s, "having_clause", L_OptionalExpression(s.p, "HAVING"))
      OrderBy(s) ==
        SetList(s, "order_by", L_OptionalByList(s.p, "ORDER", "Expected BY after ORDER"))
      Limit(s) == SetExpression(s, "limit", L_OptionalExpression(s.p, "LIMIT"))
      Offset(s) == SetExpression(s, "offset", L_OptionalExpression(s.p, "OFFSET"))
  IN  Offset(Limit(OrderBy(Having(GroupBy(Where(From(SelectList(
        [p |-> L_consume_keyword(p, "SELECT", "Expected SELECT"),
         stmt |-> [kind |-> "SelectStatement", select_list |-> <<>>,
                   from_tables |-> <<>>, where_clause |-> Null, group_by |-> <<>>,
                   having_clause |-> Null, order_by |-> <<>>, limit |-> Null,
                   offset |-> Null]]))))))))

L_parse_insert(p) ==
  LET p2 == L_consume_keyword(L_consume_keyword(p, "INSERT", "Expected INSERT"),
                              "INTO", "Expected INTO after INSERT")
      Closed(cl) ==
        [p |-> L_consume(cl.p, "RPAREN", "Expected ) after column list"), list |-> cl.list]
      Columns(s) ==
        IF match(s.p, "LPAREN")
        THEN SetList(s, "columns", Closed(L_parse_column_list(s.p)))
        ELSE s
      Values(s) ==
        SetList(s, "values",
                L_parse_values_list(L_consume_keyword(s.p, "VALUES", "Expected VALUES"), <<>>))
  IN  Values(Columns(
        [p |-> L_consume(p2, "IDENTIFIER", "Expected table name"),
         stmt |-> [kind |-> "InsertStatement", table_name |-> current_token(p2).value,
                   columns |-> <<>>, values |-> <<>>]]))

L_parse_update(p) ==
  LET p1 == L_consume_keyword(p, "UPDATE", "Expected UPDATE")
      Set(s) ==
        SetList(s, "set_clause",
                L_parse_set_clause(L_consume_keyword(s.p, "SET", "Expected SET"), <<>>))
      Where(s) == SetExpression(s, "where_clause", L_OptionalExpression(s.p, "WHERE"))
  IN  Where(Set(
        [p |-> L_consume(p1, "IDENTIFIER", "Expected table name"),
         stmt |-> [kind |-> "UpdateStatement", table_name |-> current_token(p1).value,
                   set_clause |-> <<>>, where_clause |-> Null]]))

L_parse_delete(p) ==
  LET p2 == L_consume_keyword(L_consume_keyword(p, "DELETE", "Expected DELETE"),
                              "FROM", "Expected FROM after DELETE")
      Where(s) == SetExpression(s, "where_clause", L_OptionalExpression(s.p, "WHERE"))
  IN  Where([p |-> L_consume(p2, "IDENTIFIER", "Expected table name"),
             stmt |-> [kind |-> "DeleteStatement", table_name |-> current_token(p2).value,
                       where_clause |-> Null]])

L_parse_drop_table(p) ==
  LET p2 == L_consume_keyword(L_consume_keyword(p, "DROP", "Expected DROP"),
                              "TABLE", "Expected TABLE")
  IN  [p |-> L_consume(p2, "IDENTIFIER", "Expected table name"),
       stmt |-> [kind |-> "DropTableStatement", table_name |-> current_token(p2).value]]

ColumnDefinition(name, data_type) ==
  [name |-> name, data_type |-> data_type, is_nullable |-> TRUE,
   is_primary_key |-> FALSE, is_unique |-> FALSE, default_value |-> Null]

\* parse_column_definition up to its constraint loop
L_ColumnDefinitionHead(p) ==
  LET p1 == L_consume(p, "IDENTIFIER", "Expected column name")
  IN  [p |-> L_consume(p1, "IDENTIFIER", "Expected data type"),
       column |-> ColumnDefinition(current_token(p).value, current_token(p1).value)]

\* parse_create_table up to the constraint loop of the first column
L_CreateTableHead(p) ==
  LET p2 == L_consume_keyword(L_consume_keyword(p, "CREATE", "Expected CREATE"),
                              "TABLE", "Expected TABLE")
      Started(head) ==
        [p |-> head.p, table_name |-> current_token(p2).value, columns |-> <<>>,
         column |-> head.column]
  IN  Started(L_ColumnDefinitionHead(
        L_consume(L_consume(p2, "IDENTIFIER", "Expected table name"),
                  "LPAREN", "Expected ( after table name")))

\* The condition of the constraint loop of parse_column_definition
L_ConstraintLoopCondition(p) ==
  current_token(p).type \notin {"COMMA", "RPAREN", "END_OF_FILE"}

\* One pass through the body of the constraint loop: c = [p, column, break]
L_ConstraintLoopBody(p, column) ==
  LET Default(value) ==
        [p |-> value.p, column |-> [column EXCEPT !.default_value = value.e],
         break |-> FALSE]
  IN  CASE L_match_keyword(p, "NOT") ->
             [p |-> L_consume_keyword(p, "NULL", "Expected NULL after NOT"),
              column |-> [column EXCEPT !.is_nullable = FALSE], break |-> FALSE]
        [] L_match_keyword(p, "PRIMARY") ->
             [p |-> L_consume_keyword(p, "KEY", "Expected KEY after PRIMARY"),
              column |-> [column EXCEPT !.is_primary_key = TRUE], break |-> FALSE]
        [] L_match_keyword(p, "UNIQUE") ->
             [p |-> p, column |-> [column EXCEPT !.is_unique = TRUE], break |-> FALSE]
        [] L_match_keyword(p, "DEFAULT") -> Default(L_parse_expression(p))
        [] OTHER ->
             [p |-> Parser_advance(p), column |-> column, break |-> TRUE]

(* ---- src/sql/parser/seal/parser.cpp ---- *)

ColumnReference(table, column) ==
  [kind |-> "ColumnReference", tableName |-> table, columnName |-> column]

Literal(type, value) == [kind |-> "Literal", type |-> type, value |-> value]

\* error_ = message: every call overwrites the message
S_report_error(p, text, tok) ==
  [p EXCEPT !.err = [text |-> text, tok |-> tok, line |-> 0, column |-> 0],
            !.log = Logged(@, text, tok)]

S_consume(p, type, error_msg) ==
  IF match(p, type) THEN Parser_advance(p)
  ELSE S_report_error(p, error_msg \o ", got: ", current_token(p).value)

S_parse_column_reference(p) ==
  IF match(p, "IDENTIFIER")
  THEN [p |-> Parser_advance(p), e |-> ColumnReference(<<>>, current_token(p).value)]
  ELSE [p |-> S_report_error(p, "Expected column name", <<>>), e |-> Null]

S_parse_literal(p) ==
  CASE match(p, "NUMBER_LITERAL") ->
         [p |-> Parser_advance(p), e |-> Literal("INTEGER", current_token(p).value)]
    [] match(p, "STRING_LITERAL") ->
         [p |-> Parser_advance(p), e |-> Literal("STRING", current_token(p).value)]
    [] OTHER ->
         [p |-> S_report_error(p, "Expected literal", <<>>), e |-> Null]

RECURSIVE S_parse_expression(_), S_parse_condition(_), S_ConditionLoop(_),
          S_parse_arithmetic_expression(_), S_ArithmeticLoop(_),
          S_parse_term(_), S_TermLoop(_), S_parse_factor(_),
          S_ExpressionList(_, _)

S_parse_expression(p) == S_parse_condition(p)

\* while (match(TokenType::AND) || match(TokenType::OR)) { ... }
S_ConditionLoop(left) ==
  IF match(left.p, "AND") \/ match(left.p, "OR")
  THEN S_ConditionLoop(
         LeftAssoc(left, token_to_operator(current_token(left.p).type),
                   S_parse_arithmetic_expression(Parser_advance(left.p))))
  ELSE left

S_parse_condition(p) == S_ConditionLoop(S_parse_arithmetic_expression(p))

\* while (match(TokenType::PLUS) || match(TokenType::MINUS)) { ... }
S_ArithmeticLoop(left) ==
  IF match(left.p, "PLUS") \/ match(left.p, "MINUS")
  THEN S_ArithmeticLoop(
         LeftAssoc(left, token_to_operator(current_token(left.p).type),
                   S_parse_term(Parser_advance(left.p))))
  ELSE left

S_parse_arithmetic_expression(p) == S_ArithmeticLoop(S_parse_term(p))

\* while (match(MULTIPLY) || match(DIVIDE) || match(MOD)) { ... }
S_TermLoop(left) ==
  IF match(left.p, "MULTIPLY") \/ match(left.p, "DIVIDE") \/ match(left.p, "MOD")
  THEN S_TermLoop(
         LeftAssoc(left, token_to_operator(current_token(left.p).type),
                   S_parse_factor(Parser_advance(left.p))))
  ELSE left

S_parse_term(p) == S_TermLoop(S_parse_factor(p))

S_parse_factor(p) ==
  LET Paren(expr) == [p |-> S_consume(expr.p, "RPAREN", "Expected )"), e |-> expr.e]
  IN  CASE match(p, "LPAREN") -> Paren(S_parse_expression(Parser_advance(p)))
        [] match(p, "IDENTIFIER") -> S_parse_column_reference(p)
        [] match(p, "NUMBER_LITERAL") \/ match(p, "STRING_LITERAL") -> S_parse_literal(p)
        [] OTHER ->
             [p |-> S_report_error(p, "Unexpected token in expression: ",
                                   current_token(p).value),
              e |-> Null]

\* do { list.push_back(parse_expression()); }
\* while (match(TokenType::COMMA) && advance_and_return_true());
S_ExpressionList(p, list) ==
  LET Pushed(r) ==
        IF match(r.p, "COMMA")
        THEN S_ExpressionList(Parser_advance(r.p), Append(list, r.e))
        ELSE [p |-> r.p, list |-> Append(list, r.e)]
  IN  Pushed(S_parse_expression(p))

RECURSIVE S_parse_select_list(_, _)
S_parse_select_list(p, columns) ==
  LET Pushed(r) ==
        IF match(r.p, "COMMA")
        THEN S_parse_select_list(Parser_advance(r.p), Append(columns, r.e))
        ELSE [p |-> r.p, list |-> Append(columns, r.e)]
  IN  IF match(p, "MULTIPLY")
      THEN [p |-> Parser_advance(p), list |-> Append(columns, ColumnReference(<<>>, <<"*">>))]
      ELSE Pushed(S_parse_expression(p))

RECURSIVE S_parse_column_list(_, _)
S_parse_column_list(p, columns) ==
  IF match(p, "IDENTIFIER")
  THEN IF match(Parser_advance(p), "COMMA")
       THEN S_parse_column_list(Parser_advance(Parser_advance(p)),
                                Append(columns, current_token(p).value))
       ELSE [p |-> Parser_advance(p), list |-> Append(columns, current_token(p).value)]
  ELSE [p |-> S_report_error(p, "Expected column name", <<>>), list |-> columns]

RECURSIVE S_parse_values_list(_, _)
S_parse_values_list(p, values_list) ==
  LET Closed(p2, row) ==
        IF match(p2, "COMMA")
        THEN S_parse_values_list(Parser_advance(p2), Append(values_list, row.list))
        ELSE [p |-> p2, list |-> Append(values_list, row.list)]
      Row(row) == Closed(S_consume(row.p, "RPAREN", "Expected )"), row)
  IN  Row(S_ExpressionList(S_consume(p, "LPAREN", "Expected ("), <<>>))

RECURSIVE S_parse_set_clause(_, _)
S_parse_set_clause(p, set_items) ==
  LET Pushed(value) ==
        IF match(value.p, "COMMA")
        THEN S_parse_set_clause(Parser_advance(value.p),
                                Append(set_items, <<current_token(p).value, value.e>>))
        ELSE [p |-> value.p,
              list |-> Append(set_items, <<current_token(p).value, value.e>>)]
  IN  IF match(p, "IDENTIFIER")
      THEN Pushed(S_parse_expression(S_consume(Parser_advance(p), "ASSIGN", "Expected =")))
      ELSE [p |-> S_report_error(p, "Expected column name", <<>>), list |-> set_items]

S_parse_column_definition(p) ==
  IF match(p, "IDENTIFIER")
  THEN [p |-> Parser_advance(p), e |-> ColumnReference(<<>>, current_token(p).value)]
  ELSE [p |-> S_report_error(p, "Expected column name", <<>>), e |-> Null]

RECURSIVE S_parse_column_definitions(_, _)
S_parse_column_definitions(p, columns) ==
  LET Pushed(r) ==
        IF match(r.p, "COMMA")
        THEN S_parse_column_definitions(Parser_advance(r.p), Append(columns, r.e))
        ELSE [p |-> r.p, list |-> Append(columns, r.e)]
  IN  Pushed(S_parse_column_definition(p))

\* `if (match(K)) { advance(); x = parse_...(); }`
S_OptionalExpression(p, type) ==
  IF match(p, type) THEN S_parse_condition(Parser_advance(p)) ELSE [p |-> p, e |-> Null]

S_OptionalByList(p, type, error_msg) ==
  IF match(p, type)
  THEN S_ExpressionList(S_consume(Parser_advance(p), "BY", error_msg), <<>>)
  ELSE [p |-> p, list |-> <<>>]

\* A table name that is required: on failure the statement parser returns
\* nullptr at once.
S_TableName(p) ==
  IF match(p, "IDENTIFIER")
  THEN [p |-> Parser_advance(p), name |-> current_token(p).value, ok |-> TRUE]
  ELSE [p |-> S_report_error(p, "Expected table name", <<>>), name |-> <<>>, ok |-> FALSE]

S_parse_select(p) ==
  LET Where(s) == SetExpression(s, "whereClause", S_OptionalExpression(s.p, "WHERE"))
      GroupBy(s) ==
        SetList(s, "groupBy", S_OptionalByList(s.p, "GROUP", "Expected BY after GROUP"))
      Having(s) == SetExpression(s, "havingClause", S_OptionalExpression(s.p, "HAVING"))
      OrderBy(s) ==
        SetList(s, "orderBy", S_OptionalByList(s.p, "ORDER", "Expected BY after ORDER"))
      Limit(s) == SetExpression(s, "limitClause", S_OptionalExpression(s.p, "LIMIT"))
      Offset(s) == SetExpression(s, "offsetClause", S_OptionalExpression(s.p, "OFFSET"))
      Clauses(s) == Offset(Limit(OrderBy(Having(GroupBy(Where(s))))))
      Table(s, t) ==
        IF t.ok
        THEN Clauses([p |-> t.p, stmt |-> [s.stmt EXCEPT !.fromTable = t.name]])
        ELSE [p |-> t.p, stmt |-> Null]
      From(s) ==
        IF match(s.p, "FROM") THEN Table(s, S_TableName(Parser_advance(s.p)))
        ELSE Clauses(s)
      SelectList(s) == SetList(s, "selectList", S_parse_select_list(s.p, <<>>))
  IN  From(SelectList(
        [p |-> S_consume(p, "SELECT", "Expected SELECT"),
         stmt |-> [kind |-> "SelectStatement", selectList |-> <<>>, fromTable |-> <<>>,
                   whereClause |-> Null, groupBy |-> <<>>, havingClause |-> Null,
                   orderBy |-> <<>>, limitClause |-> Null, offsetClause |-> Null]]))

S_parse_insert(p) ==
  LET Closed(cl) == [p |-> S_consume(cl.p, "RPAREN", "Expected )"), list |-> cl.list]
      Columns(s) ==
        IF match(s.p, "LPAREN")
        THEN SetList(s, "columns", Closed(S_parse_column_list(Parser_advance(s.p), <<>>)))
        ELSE s
      Values(s) ==
        SetList(s, "values",
                S_parse_values_list(S_consume(s.p, "VALUES", "Expected VALUES"), <<>>))
      Table(t) ==
        IF t.ok
        THEN Values(Columns([p |-> t.p,
                             stmt |-> [kind |-> "InsertStatement", tableName |-> t.name,
                                       columns |-> <<>>, values |-> <<>>]]))
        ELSE [p |-> t.p, stmt |-> Null]
  IN  Table(S_TableName(S_consume(S_consume(p, "INSERT", "Expected INSERT"),
                                  "INTO", "Expected INTO")))

S_parse_update(p) ==
  LET Set(s) ==
        SetList(s, "setClause",
                S_parse_set_clause(S_consume(s.p, "SET", "Expected SET"), <<>>))
      Where(s) == SetExpression(s, "whereClause", S_OptionalExpression(s.p, "WHERE"))
      Table(t) ==
        IF t.ok
        THEN Where(Set([p |-> t.p,
                        stmt |-> [kind |-> "UpdateStatement", tableName |-> t.name,
                                  setClause |-> <<>>, whereClause |-> Null]]))
        ELSE [p |-> t.p, stmt |-> Null]
  IN  Table(S_TableName(S_consume(p, "UPDATE", "Expected UPDATE")))

S_parse_delete(p) ==
  LET Where(s) == SetExpression(s, "whereClause", S_OptionalExpression(s.p, "WHERE"))
      Table(t) ==
        IF t.ok
        THEN Where([p |-> t.p,
                    stmt |-> [kind |-> "DeleteStatement", tableName |-> t.name,
                              whereClause |-> Null]])
        ELSE [p |-> t.p, stmt |-> Null]
  IN  Table(S_TableName(S_consume(S_consume(p, "DELETE", "Expected DELETE"),
                                  "FROM", "Expected FROM")))

S_parse_create_table(p) ==
  LET Closed(columns) ==
        [p |-> S_consume(columns.p, "RPAREN", "Expected )"), list |-> columns.list]
      Columns(s) ==
        SetList(s, "columns",
                Closed(S_parse_column_definitions(S_consume(s.p, "LPAREN", "Expected ("),
                                                  <<>>)))
      Table(t) ==
        IF t.ok
        THEN Columns([p |-> t.p,
                      stmt |-> [kind |-> "CreateTableStatement", tableName |-> t.name,
                                columns |-> <<>>]])
        ELSE [p |-> t.p, stmt |-> Null]
  IN  Table(S_TableName(S_consume(S_consume(p, "CREATE", "Expected CREATE"),
                                  "TABLE", "Expected TABLE")))

\* Returns nullptr on every path
S_parse_drop_table(p) ==
  [p |-> S_TableName(S_consume(S_consume(p, "DROP", "Expected DROP"),
                               "TABLE", "Expected TABLE")).p,
   stmt |-> Null]

S_parse(p) ==
  IF p.toks = <<>>
  THEN [p |-> S_report_error(p, "Empty input", <<>>), stmt |-> Null]
  ELSE CASE match(p, "SELECT") -> S_parse_select(p)
         [] match(p, "INSERT") -> S_parse_insert(p)
         [] match(p, "UPDATE") -> S_parse_update(p)
         [] match(p, "DELETE") -> S_parse_delete(p)
         [] match(p, "CREATE") -> S_parse_create_table(p)
         [] match(p, "DROP")   -> S_parse_drop_table(p)
         [] OTHER ->
              [p |-> S_report_error(p, "Unexpected token: ", current_token(p).value),
               stmt |-> Null]

\* SealParser::parse once the Parser has returned `statement`
ParseResult(stmt, p) ==
  IF stmt # Null /\ ~has_error(p)
  THEN [ast |-> stmt, errors |-> <<>>, success |-> TRUE]
  ELSE [ast |-> Null,
        errors |-> IF p.err # NoError
                   THEN <<[message |-> p.err, line |-> 0, column |-> 0]>>
                   ELSE <<>>,
        success |-> FALSE]

----------------------------------------------------------------------------
(* SQL texts the front end is run on                                       *)

\* The words of a text separated by single spaces
RECURSIVE Join(_)
Join(words) ==
  IF words = <<>> THEN <<>>
  ELSE IF Len(words) = 1 THEN words[1]
  ELSE words[1] \o <<" ">> \o Join(Tail(words))

W(name) == Word[name]
Quoted(name) == <<"'">> \o Word[name] \o <<"'">>

\* Largest number of operands of a generated expression
MaxOperands == 4

\* Cap on the token list, which the seal lexer grows without end on an
\* unrecognized character
MaxTokens == 26

ArithmeticSymbols == {"+", "-", "*", "/", "%"}

Operand(i) == <<W("a"), <<"2">>, W("c"), <<"4">>, W("x")>>[i]

\* operand 1, then (symbol, operand) for every symbol of ops
RECURSIVE ExpressionWords(_, _)
ExpressionWords(ops, i) ==
  IF i > Len(ops) THEN <<>>
  ELSE <<<<ops[i]>>, Operand(i + 1)>> \o ExpressionWords(ops, i + 1)

\* `SELECT 1 + 2 * 3`, `SELECT a - b - c` and every text
\* `SELECT a <op> 2 <op> c ...` of at most MaxOperands operands
ExpressionTexts ==
  { Join(<<W("SELECT"), <<"1">>, <<"+">>, <<"2">>, <<"*">>, <<"3">>>>),
    Join(<<W("SELECT"), W("a"), <<"-">>, W("b"), <<"-">>, W("c")>>) }
  \cup { Join(<<W("SELECT"), Operand(1)>> \o ExpressionWords(ops, 1)) :
          ops \in UNION { [1..n -> ArithmeticSymbols] : n \in 1..(MaxOperands - 1) } }

\* Statements that are valid SQL, by the kind of statement they are
ValidTexts ==
  { [kind |-> "SelectStatement", sql |-> Join(<<W("SELECT"), <<"*">>, W("FROM"), W("users")>>)],
    [kind |-> "SelectStatement",
     sql |-> Join(<<W("SELECT"), W("id") \o <<",">>, W("name"), W("FROM"), W("users"),
                    W("WHERE"), W("age"), <<">">>, <<"1", "8">>>>)],
    [kind |-> "SelectStatement",
     sql |-> Join(<<W("SELECT"), <<"*">>, W("FROM"), W("users"), W("WHERE"), W("name"),
                    <<"=">>, Quoted("John"), W("AND"), W("age"), <<">", "=">>, <<"2", "5">>>>)],
    [kind |-> "SelectStatement",
     sql |-> Join(<<W("SELECT"), W("a"), W("FROM"), W("t"), W("GROUP"), W("BY"), W("a"),
                    W("HAVING"), W("a"), W("ORDER"), W("BY"), W("a"), W("LIMIT"), <<"1">>,
                    W("OFFSET"), <<"2">>>>)],
    [kind |-> "SelectStatement",
     sql |-> Join(<<W("select"), W("a"), W("from"), W("t")>>) \o <<";", "\n">>],
    [kind |-> "InsertStatement",
     sql |-> Join(<<W("INSERT"), W("INTO"), W("users"), <<"(">> \o W("id") \o <<",">>,
                    W("name") \o <<",">>, W("age") \o <<")">>, W("VALUES"),
                    <<"(", "1", ",">>, Quoted("John") \o <<",">>, <<"2", "5", ")">>>>)],
    [kind |-> "InsertStatement",
     sql |-> Join(<<W("INSERT"), W("INTO"), W("t"), W("VALUES"), <<"(", "1", ")">>>>)],
    [kind |-> "UpdateStatement",
     sql |-> Join(<<W("UPDATE"), W("users"), W("SET"), W("age"), <<"=">>, <<"2", "6">>,
                    W("WHERE"), W("id"), <<"=">>, <<"1">>>>)],
    [kind |-> "DeleteStatement",
     sql |-> Join(<<W("DELETE"), W("FROM"), W("users"), W("WHERE"), W("id"), <<"=">>, <<"1">>>>)],
    [kind |-> "DeleteStatement", sql |-> Join(<<W("DELETE"), W("FROM"), W("users")>>)],
    [kind |-> "CreateTableStatement",
     sql |-> Join(<<W("CREATE"), W("TABLE"), W("users"), <<"(">> \o W("id"), W("INT"),
                    W("PRIMARY"), W("KEY") \o <<",">>, W("name"),
                    W("VARCHAR") \o <<"(", "5", "0", ")", ",">>, W("age"),
                    W("INT") \o <<")">>>>)],
    [kind |-> "CreateTableStatement",
     sql |-> Join(<<W("CREATE"), W("TABLE"), W("t"), <<"(">>, W("a"), W("INT"), W("NOT"),
                    W("NULL"), <<")">>>>)],
    [kind |-> "CreateTableStatement",
     sql |-> Join(<<W("CREATE"), W("TABLE"), W("t"), <<"(">>, W("a"), W("INT"), W("UNIQUE"),
                    <<",">>, W("b"), W("INT"), W("DEFAULT"), <<"1">>, <<")">>>>)],
    [kind |-> "CreateTableStatement",
     sql |-> Join(<<W("CREATE"), W("TABLE"), W("t"), <<"(">>, W("a"), W("b"), <<",">>,
                    W("c"), W("x"), <<")">>>>)],
    [kind |-> "DropTableStatement", sql |-> Join(<<W("DROP"), W("TABLE"), W("users")>>)] }

\* Conditions in a select list, where both parsers reach parse_condition
ConditionTexts ==
  { Join(<<W("SELECT"), W("a"), <<">">>, <<"1">>>>),
    Join(<<W("SELECT"), W("a"), <<"=", "=">>, <<"1">>, W("AND"), W("b"), <<">", "=">>,
           <<"2">>>>),
    Join(<<W("SELECT"), W("a"), W("AND"), W("b"), W("OR"), W("c")>>),
    Join(<<W("SELECT"), W("a"), <<"+">>, <<"1">>, <<"<">>, W("b"), <<"*">>, <<"2">>>>) }

\* Texts that are no statement, among them unrecognized characters and an
\* unterminated string
OtherTexts ==
  { <<>>, <<" ">>, W("x"),
    Join(<<W("SELECT"), <<"*">>, W("FROM")>>),
    Join(<<W("SELECT"), <<"1">>, <<"+">>>>),
    Join(<<W("SELECT"), <<"(">>, <<"1">>>>),
    Join(<<W("SELECT"), W("a"), W("FROM"), W("t"), W("WHERE")>>),
    Join(<<W("SELECT"), W("a"), <<"@">>, W("b")>>),
    Join(<<W("SELECT"), <<"'", "a", "b">>>>),
    Join(<<W("SELECT"), W("a"), <<"#">>>>) \o <<" ">>,
    Join(<<W("SELECT"), W("COUNT") \o <<"(">>, W("a"), <<")">>, <<"-">>, <<"-">>, <<"1">>>>),
    Join(<<W("INSERT"), W("INTO")>>),
    Join(<<W("UPDATE"), W("users"), W("SET")>>),
    Join(<<W("DROP"), W("TABLE")>>),
    Join(<<W("CREATE"), W("TABLE"), W("t"), <<"(">>, W("a"), W("b"), W("CHECK"), W("c"),
           <<")">>>>),
    Join(<<W("SELECT"), W("a"), W("FROM"), W("t"), W("t")>>),
    Join(<<<<"@">>, W("SELECT"), W("a")>>),
    Join(<<W("INSERT"), W("users")>>),
    Join(<<W("SELECT"), W("FROM")>>),
    Join(<<W("SELECT"), W("a"), W("FROM"), W("t"), <<"@">>>>),
    Join(<<W("SELECT"), W("a"), W("FROM"), W("t"), <<"'", "x">>>>),
    Join(<<W("DELETE"), W("FROM"), W("t"), W("WHERE"), W("a"), <<"=">>, <<"'", "x">>>>) }
  \cup { Join(<<W("CREATE"), W("TABLE"), W("t"), <<"(">>, W("a"), W("b")>> \o c \o <<<<")">>>>) :
          c \in { <<W("NOT"), W("NULL")>>, <<W("PRIMARY"), W("KEY")>>, <<W("UNIQUE")>>,
                  <<W("DEFAULT"), <<"1">>>> } }

\* Texts with a comment, each with the same text less the comment
CommentedTexts ==
  { [sql |-> Join(<<W("SELECT"), W("a")>>) \o <<" ", "-", "-", " ", "c">>,
     plain |-> Join(<<W("SELECT"), W("a")>>) \o <<" ">>],
    [sql |-> Join(<<W("SELECT"), W("a")>>) \o <<" ", "-", "-", "c", "\n">>
               \o Join(<<W("FROM"), W("t")>>),
     plain |-> Join(<<W("SELECT"), W("a")>>) \o <<" ", "\n">>
               \o Join(<<W("FROM"), W("t")>>)],
    [sql |-> Join(<<W("SELECT"), <<"/", "*">>, W("c"), <<"*", "/">>, W("a")>>),
     plain |-> Join(<<W("SELECT"), <<>>, W("a")>>)] }

Texts ==
  ValidTexts
  \cup { [kind |-> "none", sql |-> c.sql] : c \in CommentedTexts }
  \cup { [kind |-> "SelectStatement", sql |-> s] : s \in ExpressionTexts \cup ConditionTexts }
  \cup { [kind |-> "none", sql |-> s] : s \in OtherTexts }


\* Lexer::tokenize() from the lexer state lx on, with `tokens` pushed so far
RECURSIVE tokenize_from(_, _, _, _)
tokenize_from(v, in, lx, tokens) ==
  IF is_eof(in, lx) \/ Len(tokens) >= MaxTokens THEN tokens
  ELSE LET Pushed(r) ==
             IF r.tok.type = "END_OF_FILE" THEN Append(tokens, r.tok)
             ELSE tokenize_from(v, in, r.lx,
                                IF r.tok.type \notin {"WHITESPACE", "COMMENT"}
                                THEN Append(tokens, r.tok) ELSE tokens)
       IN  Pushed(next_token(v, in, lx))

\* Lexer::tokenize(): reset(), then the loop
tokenize(v, in) == tokenize_from(v, in, LexerStart, <<>>)

----------------------------------------------------------------------------
(* The front end as a state machine                                        *)

VARIABLES
  variant,        \* "legacy": src/sql/{lexer,parser}.cpp; "seal": src/sql/parser/seal/
  input_,         \* Lexer::input_
  kind,           \* the kind of statement input_ is, "none" if it is none
  lexer_,         \* Lexer::position_, line_, column_
  tokens_,        \* Parser::tokens_
  pc,             \* where the run is
  current_token_, \* Parser::current_token_
  error_,         \* Parser::error_
  statement,      \* what Parser::parse() returned
  frame,          \* locals of parse_create_table / parse_column_definition
  result,         \* what SealParser::parse() returned
  reported,       \* the messages report_error was called with, in order
  query,          \* the statement handed to Planner::plan / Optimizer::optimize
  node_defaults,  \* cost and estimated rows of a PlanNode before set_cost /
                  \* set_estimated_rows
  plan_,          \* the ExecutionPlan held by the running call, then returned
  opc,            \* where the planner or optimizer call is
  applied,        \* the optimizer passes run so far, each with its input and output
  observed,       \* the calls made on the returned plan: which one, the plan
                  \* object before and after it, and what it returned
  heap,           \* the Expression objects allocated, by address; a freed one
                  \* is Freed
  original,       \* address of the root of the expression clone() is called on
  copy,           \* address of the root clone() returned, 0 when there is none
  built,          \* the expression as it was built
  touched,        \* the trees mutated or destroyed since clone()
  apc,            \* where the run on the expression is
  table_stats_,   \* StatisticsManager::table_stats_, a function on the known tables
  index_stats_,   \* StatisticsManager::index_stats_, a function on the known indexes
  estimate,       \* the estimate just asked of the StatisticsManager, with its result
  update,         \* the update just made to the StatisticsManager, with its arguments
  spc,            \* where the run on the StatisticsManager is
  asked,          \* the calls made on CostEstimator and IndexSelector, with their results
  running_,       \* ThreadPool::running_
  queues,         \* the five priority queues, CRITICAL first
  pstats,         \* ThreadPool::stats_, the counters
  stats_mutex_,   \* the worker holding ThreadPool::stats_mutex_, 0 when it is free
  wpc,            \* where each worker thread is
  wtask,          \* the task each worker has taken
  wqueue,         \* the queue each worker found non-empty
  mon,            \* the monitor thread: where it is, the queue it cleans, its valid_tasks
  cpc,            \* where the thread using the pool is
  accepted,       \* the number of submit_task calls that returned
  calls,          \* the number of submit_task calls made
  now             \* the steady clock

frontend_vars == <<variant, input_, kind, lexer_, tokens_, pc, current_token_, error_,
                   statement, frame, result, reported>>

planner_vars == <<query, node_defaults, plan_, opc, applied, observed>>

ast_vars == <<heap, original, copy, built, touched, apc>>

stats_vars == <<table_stats_, index_stats_, estimate, update, spc>>

estimator_vars == <<asked>>

pool_vars ==
  <<running_, queues, pstats, stats_mutex_, wpc, wtask, wqueue, mon, cpc, accepted, calls, now>>

vars == <<frontend_vars, planner_vars, ast_vars, stats_vars, estimator_vars, pool_vars>>

\* What a step of the front end, of the planner and optimizer, and of a
\* run on an expression leaves alone
beside_frontend == <<planner_vars, ast_vars, stats_vars, estimator_vars, pool_vars>>

beside_planner == <<frontend_vars, ast_vars, stats_vars, estimator_vars, pool_vars>>

beside_ast == <<frontend_vars, planner_vars, stats_vars, estimator_vars, pool_vars>>

beside_stats == <<frontend_vars, planner_vars, ast_vars, estimator_vars, pool_vars>>

beside_pool ==
  <<frontend_vars, planner_vars, ast_vars, stats_vars, estimator_vars>>

beside_estimator == <<frontend_vars, planner_vars, ast_vars, stats_vars, pool_vars>>

NoFrame == [table_name |-> <<>>, columns |-> <<>>, column |-> Null]
NoResult == [ast |-> Null, errors |-> <<>>, success |-> FALSE, returned |-> FALSE]

\* No planner or optimizer call is running
PlannerIdle ==
  /\ query = Null
  /\ node_defaults = [cost |-> 0, estimated_rows |-> 0]
  /\ plan_ = Null
  /\ opc = "idle"
  /\ applied = <<>>
  /\ observed = <<>>

\* No expression is held
AstIdle ==
  /\ heap = <<>>
  /\ original = 0
  /\ copy = 0
  /\ built = Null
  /\ touched = {}
  /\ apc = "idle"

\* No StatisticsManager is in use
NoEstimate == [call |-> "none"]

NoUpdate == [call |-> "none"]

StatsIdle ==
  /\ table_stats_ = <<>>
  /\ index_stats_ = <<>>
  /\ estimate = NoEstimate
  /\ update = NoUpdate
  /\ spc = "idle"

EstimatorIdle == asked = <<>>

\* No ThreadPool has been constructed
PoolIdle ==
  /\ running_ = FALSE
  /\ queues = <<>>
  /\ pstats = <<>>
  /\ stats_mutex_ = 0
  /\ wpc = <<>>
  /\ wtask = <<>>
  /\ wqueue = <<>>
  /\ mon = [pc |-> "none"]
  /\ cpc = "none"
  /\ accepted = 0
  /\ calls = 0
  /\ now = 0

Init ==
  /\ AstIdle
  /\ StatsIdle
  /\ EstimatorIdle
  /\ PoolIdle
  /\ variant \in {"legacy", "seal"}
  /\ \E t \in Texts : input_ = t.sql /\ kind = t.kind
  /\ lexer_ = LexerStart
  /\ tokens_ = <<>>
  /\ pc = "tokenize"
  /\ current_token_ = 0
  /\ error_ = NoError
  /\ statement = Null
  /\ frame = NoFrame
  /\ result = NoResult
  /\ reported = <<>>
  /\ PlannerIdle

parser_ == [toks |-> tokens_, cur |-> current_token_, err |-> error_, log |-> reported]

\* One pass through the loop of tokenize(): while (!is_eof()) { ... }
Tokenize ==
  /\ pc = "tokenize"
  /\ ~is_eof(input_, lexer_)
  /\ Len(tokens_) < MaxTokens
  /\ LET Pushed(r) ==
           /\ lexer_' = r.lx
           /\ tokens_' = IF r.tok.type \notin {"WHITESPACE", "COMMENT"}
                         THEN Append(tokens_, r.tok) ELSE tokens_
           /\ pc' = IF r.tok.type = "END_OF_FILE" THEN "parse" ELSE "tokenize"
     IN  Pushed(next_token(variant, input_, lexer_))
  /\ UNCHANGED beside_frontend
  /\ UNCHANGED <<variant, input_, kind, current_token_, error_, statement, frame, result, reported>>

\* The loop of tokenize() ends at the end of input
TokenizeReturn ==
  /\ pc = "tokenize"
  /\ is_eof(input_, lexer_)
  /\ pc' = "parse"
  /\ UNCHANGED beside_frontend
  /\ UNCHANGED <<variant, input_, kind, lexer_, tokens_, current_token_, error_,
                 statement, frame, result, reported>>

ParserReturns(r) ==
  /\ current_token_' = r.p.cur
  /\ error_' = r.p.err
  /\ reported' = r.p.log
  /\ statement' = r.stmt

\* The parser stands in parse_column_definition, before its constraint loop
ColumnStarts(h, table_name, columns) ==
  /\ current_token_' = h.p.cur
  /\ error_' = h.p.err
  /\ reported' = h.p.log
  /\ frame' = [table_name |-> table_name, columns |-> columns, column |-> h.column]
  /\ pc' = "constraints"
  /\ statement' = statement

\* Parser::parse() of src/sql/parser.cpp; CREATE runs to the constraint
\* loop of the first column definition.
L_parse ==
  /\ pc = "parse"
  /\ variant = "legacy"
  /\ LET Started(h) == ColumnStarts(h, h.table_name, h.columns)
         Returns(r) == ParserReturns(r) /\ pc' = "done" /\ frame' = frame
     IN  IF tokens_ = <<>>
         THEN Returns([p |-> L_report_error(parser_, "Empty SQL statement", <<>>),
                       stmt |-> Null])
         ELSE CASE match(parser_, "SELECT") -> Returns(L_parse_select(parser_))
                [] match(parser_, "INSERT") -> Returns(L_parse_insert(parser_))
                [] match(parser_, "UPDATE") -> Returns(L_parse_update(parser_))
                [] match(parser_, "DELETE") -> Returns(L_parse_delete(parser_))
                [] match(parser_, "CREATE") -> Started(L_CreateTableHead(parser_))
                [] match(parser_, "DROP")   -> Returns(L_parse_drop_table(parser_))
                [] OTHER ->
                     Returns([p |-> L_report_error(parser_, "Unknown statement type: ",
                                                   current_token(parser_).value),
                              stmt |-> Null])
  /\ UNCHANGED beside_frontend
  /\ UNCHANGED <<variant, input_, kind, lexer_, tokens_, result>>

\* One pass through the constraint loop of parse_column_definition
L_ConstraintIteration ==
  /\ pc = "constraints"
  /\ L_ConstraintLoopCondition(parser_)
  /\ LET Iterated(c) ==
           /\ current_token_' = c.p.cur
           /\ error_' = c.p.err
           /\ reported' = c.p.log
           /\ frame' = [frame EXCEPT !.column = c.column]
           /\ pc' = IF c.break THEN "column" ELSE "constraints"
     IN  Iterated(L_ConstraintLoopBody(parser_, frame.column))
  /\ UNCHANGED beside_frontend
  /\ UNCHANGED <<variant, input_, kind, lexer_, tokens_, statement, result>>

\* The constraint loop ends: parse_column_definition returns the column
L_ConstraintExit ==
  /\ pc = "constraints"
  /\ ~L_ConstraintLoopCondition(parser_)
  /\ pc' = "column"
  /\ UNCHANGED beside_frontend
  /\ UNCHANGED <<variant, input_, kind, lexer_, tokens_, current_token_, error_,
                 statement, frame, result, reported>>

\* parse_column_definitions takes the column; after a comma it parses the
\* next one, otherwise parse_create_table finishes.
L_ColumnDefinitions ==
  /\ pc = "column"
  /\ IF match(parser_, "COMMA")
     THEN ColumnStarts(L_ColumnDefinitionHead(Parser_advance(parser_)),
                       frame.table_name, Append(frame.columns, frame.column))
     ELSE /\ ParserReturns(
               [p |-> L_consume(parser_, "RPAREN", "Expected ) after column definitions"),
                stmt |-> [kind |-> "CreateTableStatement",
                          table_name |-> frame.table_name,
                          columns |-> Append(frame.columns, frame.column)]])
          /\ frame' = [frame EXCEPT !.columns = Append(frame.columns, frame.column)]
          /\ pc' = "done"
  /\ UNCHANGED beside_frontend
  /\ UNCHANGED <<variant, input_, kind, lexer_, tokens_, result>>

\* Parser::parse() of src/sql/parser/seal/parser.cpp
S_Parse ==
  /\ pc = "parse"
  /\ variant = "seal"
  /\ ParserReturns(S_parse(parser_))
  /\ pc' = "parsed"
  /\ UNCHANGED beside_frontend
  /\ UNCHANGED <<variant, input_, kind, lexer_, tokens_, frame, result>>

\* SealParser::parse(sql) returns its ParseResult
SealParserReturn ==
  /\ pc = "parsed"
  /\ LET Returned(r) ==
           result' = [ast |-> r.ast, errors |-> r.errors, success |-> r.success,
                      returned |-> TRUE]
     IN  Returned(ParseResult(statement, parser_))
  /\ pc' = "done"
  /\ UNCHANGED beside_frontend
  /\ UNCHANGED <<variant, input_, kind, lexer_, tokens_, current_token_, error_,
                 statement, frame, reported>>

Next ==
  \/ Tokenize
  \/ TokenizeReturn
  \/ L_parse
  \/ L_ConstraintIteration
  \/ L_ConstraintExit
  \/ L_ColumnDefinitions
  \/ S_Parse
  \/ SealParserReturn

Spec == Init /\ [][Next]_vars

----------------------------------------------------------------------------
(* Properties of the front end                                             *)

IsBinary(e) == e.kind = "BinaryExpression"

Additive == {"ADD", "SUBTRACT"}
Multiplicative == {"MULTIPLY", "DIVIDE", "MOD"}
Comparisons == {"EQUAL", "NOT_EQUAL", "LESS", "LESS_EQUAL", "GREATER", "GREATER_EQUAL"}
Logical == {"AND", "OR"}

OperatorText(op) ==
  CASE op = "ADD" -> <<"+">>           [] op = "SUBTRACT" -> <<"-">>
    [] op = "MULTIPLY" -> <<"*">>      [] op = "DIVIDE" -> <<"/">>
    [] op = "MOD" -> <<"%">>           [] op = "EQUAL" -> <<"=", "=">>
    [] op = "NOT_EQUAL" -> <<"!", "=">> [] op = "LESS" -> <<"<">>
    [] op = "LESS_EQUAL" -> <<"<", "=">> [] op = "GREATER" -> <<">">>
    [] op = "GREATER_EQUAL" -> <<">", "=">>
    [] op = "AND" -> W("AND")          [] op = "OR" -> W("OR")

LeafText(e) ==
  CASE e.kind \in {"LiteralExpression", "Literal"} -> e.value
    [] e.kind = "IdentifierExpression" -> e.name
    [] e.kind = "ColumnReference" -> e.columnName
    [] OTHER -> <<"?">>

\* The operands and operators of an expression tree, left to right
RECURSIVE InOrder(_)
InOrder(e) ==
  IF IsBinary(e)
  THEN InOrder(e.left) \o <<OperatorText(e.op)>> \o InOrder(e.right)
  ELSE <<LeafText(e)>>

\* Multiplicative operators below additive ones, and no operator of the
\* same level as the right operand of another
RECURSIVE PrecedenceShape(_)
PrecedenceShape(e) ==
  IsBinary(e) =>
    /\ PrecedenceShape(e.left)
    /\ PrecedenceShape(e.right)
    /\ IF e.op \in Multiplicative
       THEN ~IsBinary(e.right) /\ ~(IsBinary(e.left) /\ e.left.op \in Additive)
       ELSE ~(IsBinary(e.right) /\ e.right.op \in Additive)

RECURSIVE ContainsOperator(_, _)
ContainsOperator(e, ops) ==
  IsBinary(e) /\ (e.op \in ops \/ ContainsOperator(e.left, ops)
                               \/ ContainsOperator(e.right, ops))

\* No AND/OR below a comparison, AND/OR associating to the left
RECURSIVE ConditionShape(_)
ConditionShape(e) ==
  IsBinary(e) =>
    /\ ConditionShape(e.left)
    /\ ConditionShape(e.right)
    /\ e.op \in Comparisons =>
         ~ContainsOperator(e.left, Logical) /\ ~ContainsOperator(e.right, Logical)
    /\ e.op \in Logical => ~(IsBinary(e.right) /\ e.right.op \in Logical)

SelectListOf(stmt) == IF variant = "legacy" THEN stmt.select_list ELSE stmt.selectList
WhereOf(stmt) == IF variant = "legacy" THEN stmt.where_clause ELSE stmt.whereClause

\* The text of the tokens from the n-th on, the end-of-file token left out
TokenTexts(n) ==
  LET last == IF tokens_[Len(tokens_)].type = "END_OF_FILE"
              THEN Len(tokens_) - 1 ELSE Len(tokens_)
  IN  [i \in 1..(last - n + 1) |-> Upper(tokens_[i + n - 1].value)]

UpperAll(texts) == [i \in 1..Len(texts) |-> Upper(texts[i])]

Parsed == pc = "done"

\* C1: a valid statement of each of the six kinds parses to a non-null
\* statement of that kind with no error recorded.
C1_ValidStatementsParse ==
  (Parsed /\ kind # "none") =>
    (statement # Null /\ statement.kind = kind /\ error_ = NoError)

C1_Witness == Parsed /\ kind = "DropTableStatement" /\ variant = "seal" /\ statement = Null

\* C2: when parse() has recorded an error it returns no statement.
C2_ErrorMeansNoStatement == (Parsed /\ error_ # NoError) => statement = Null

C2_Witness == Parsed /\ error_ # NoError /\ statement # Null

\* C3: every pass through the column-constraint loop of CREATE TABLE
\* consumes a token or leaves the loop.
C3_ConstraintLoopProgress ==
  [][(pc = "constraints" /\ L_ConstraintLoopCondition(parser_))
       => (current_token_' > current_token_ \/ pc' # "constraints")]_vars

C3_Witness ==
  /\ pc = "constraints"
  /\ L_match_keyword(parser_, "PRIMARY")
  /\ frame.column.is_primary_key

\* C4: every next_token() call made before the end of input moves the read
\* position forward.
C4_NextTokenAdvances ==
  [][(pc = "tokenize" /\ ~is_eof(input_, lexer_)) => lexer_'.pos > lexer_.pos]_vars

C4_Witness ==
  /\ pc = "tokenize"
  /\ Len(tokens_) > 3
  /\ tokens_[Len(tokens_)].type = "ERROR"
  /\ tokens_[Len(tokens_) - 1] = tokens_[Len(tokens_)]

\* C6: an expression of +, -, *, / and % parses with * / % below + -, every
\* operator taking as its right operand no operator of its own level, and
\* the operands in their order in the text.
C6_PrecedenceAndAssociativity ==
  (Parsed /\ input_ \in ExpressionTexts) =>
    /\ statement # Null
    /\ error_ = NoError
    /\ Len(SelectListOf(statement)) = 1
    /\ PrecedenceShape(SelectListOf(statement)[1])
    /\ UpperAll(InOrder(SelectListOf(statement)[1])) = TokenTexts(2)

C6_Witness ==
  /\ Parsed
  /\ input_ = Join(<<W("SELECT"), <<"1">>, <<"+">>, <<"2">>, <<"*">>, <<"3">>>>)
  /\ SelectListOf(statement)[1].op = "ADD"
  /\ SelectListOf(statement)[1].right.op = "MULTIPLY"

WhereText ==
  Join(<<W("SELECT"), W("id") \o <<",">>, W("name"), W("FROM"), W("users"),
         W("WHERE"), W("age"), <<">">>, <<"1", "8">>>>)

\* C7: a comparison parses to a BinaryExpression of that comparison over
\* the expressions on its two sides, below any AND/OR around it.
C7_ComparisonBindsTighter ==
  /\ (Parsed /\ input_ = WhereText) =>
        /\ statement # Null
        /\ IsBinary(WhereOf(statement))
        /\ WhereOf(statement).op = "GREATER"
        /\ LeafText(WhereOf(statement).left) = W("age")
        /\ LeafText(WhereOf(statement).right) = <<"1", "8">>
  /\ (Parsed /\ input_ \in ConditionTexts) =>
        /\ statement # Null
        /\ Len(SelectListOf(statement)) = 1
        /\ ConditionShape(SelectListOf(statement)[1])
        /\ UpperAll(InOrder(SelectListOf(statement)[1])) = TokenTexts(2)

C7_Witness ==
  /\ Parsed
  /\ variant = "seal"
  /\ input_ = WhereText
  /\ WhereOf(statement) = ColumnReference(<<>>, W("age"))

\* C8: a returned ParseResult is a success with a statement and no errors,
\* or a failure with no statement and at least one error.
C8_ParseResultShape ==
  result.returned =>
    \/ result.success /\ result.ast # Null /\ result.errors = <<>>
    \/ ~result.success /\ result.ast = Null /\ result.errors # <<>>

C8_Witness ==
  /\ result.returned
  /\ kind = "DropTableStatement"
  /\ ~result.success
  /\ result.errors = <<>>

HasErrorToken == \E i \in 1..Len(tokens_) : tokens_[i].type = "ERROR"

\* C14: when the lexer's tokens contain an error token, wherever it stands,
\* parse() records an error and returns no statement.
C14_ErrorTokenFailsParse ==
  (Parsed /\ HasErrorToken) => (error_ # NoError /\ statement = Null)

C14_Witness ==
  /\ Parsed
  /\ variant = "legacy"
  /\ input_ = Join(<<W("SELECT"), W("a"), <<"#">>>>) \o <<" ">>
  /\ tokens_[3].type = "ERROR"
  /\ statement # Null
  /\ error_ = NoError

\* (line, column) is 1-based and is where a token of the input starts
PositionOfToken(line, column) ==
  /\ line >= 1
  /\ column >= 1
  /\ \E i \in 1..Len(tokens_) : tokens_[i].line = line /\ tokens_[i].column = column

SelectStarFrom == Join(<<W("SELECT"), <<"*">>, W("FROM")>>)

\* C15: the position a failed parse reports, in the legacy parser's
\* message and in each ParseError of the seal front end, is 1-based and
\* that of a token of the input; for `SELECT * FROM` it is that of FROM.
C15_ErrorPosition ==
  /\ (Parsed /\ variant = "legacy" /\ error_ # NoError) =>
       /\ PositionOfToken(error_.line, error_.column)
       /\ input_ = SelectStarFrom =>
            (error_.line = tokens_[3].line /\ error_.column = tokens_[3].column)
  /\ (Parsed /\ variant = "seal" /\ result.returned) =>
       \A i \in 1..Len(result.errors) :
         /\ PositionOfToken(result.errors[i].line, result.errors[i].column)
         /\ input_ = SelectStarFrom =>
              /\ result.errors[i].line = tokens_[3].line
              /\ result.errors[i].column = tokens_[3].column

C15_Witness ==
  /\ Parsed
  /\ variant = "seal"
  /\ input_ = SelectStarFrom
  /\ tokens_[3].type = "FROM" /\ tokens_[3].line = 1 /\ tokens_[3].column = 10
  /\ Len(result.errors) = 1
  /\ result.errors[1].line = 0 /\ result.errors[1].column = 0

\* C16: the error a parse() call leaves recorded is the first one it
\* reported; failures reported after it change nothing.
C16_FirstErrorOnly ==
  (pc \in {"constraints", "column", "parsed", "done"} /\ reported # <<>>) =>
    /\ error_.text = reported[1].text
    /\ error_.tok = reported[1].tok

C16_Witness ==
  /\ Parsed
  /\ variant = "seal"
  /\ Len(reported) >= 2
  /\ reported[1].text # reported[Len(reported)].text
  /\ error_.text = reported[Len(reported)].text

EndTokens == { i \in 1..Len(tokens_) : tokens_[i].type = "END_OF_FILE" }

\* tokenize() has returned
Tokenized == pc \in {"parse", "constraints", "column", "parsed", "done"}

\* C17: what tokenize() returns ends with the end-of-input token and holds
\* no other one, for the empty input and for inputs that end without
\* whitespace too; and next_token() at the end of input returns the
\* end-of-input token and leaves position, line and column alone.
C17_OneEndToken ==
  /\ Tokenized => EndTokens = {Len(tokens_)} /\ tokens_ # <<>>
  /\ (pc # "idle" /\ is_eof(input_, lexer_)) =>
       /\ next_token(variant, input_, lexer_).tok.type = "END_OF_FILE"
       /\ next_token(variant, input_, lexer_).lx = lexer_

C17_Witness ==
  /\ Tokenized
  /\ input_ = Join(<<W("DROP"), W("TABLE"), W("users")>>)
  /\ Len(tokens_) = 3
  /\ tokens_[3].type = "IDENTIFIER"
  /\ is_eof(input_, lexer_)
  /\ next_token(variant, input_, lexer_).tok.type = "END_OF_FILE"

\* Kind and lexeme of each token
Lexemes(tokens) == [i \in 1..Len(tokens) |-> <<tokens[i].type, tokens[i].value>>]

\* C18: tokenize() gives a text with a `--` or `/* */` comment the token
\* kinds and lexemes of the same text without the comment.
C18_CommentsSkipped ==
  \A c \in CommentedTexts :
    (Tokenized /\ input_ = c.sql) =>
      Lexemes(tokens_) = Lexemes(tokenize(variant, c.plain))

C18_Witness ==
  /\ Tokenized
  /\ input_ = Join(<<W("SELECT"), W("a")>>) \o <<" ", "-", "-", " ", "c">>
  /\ tokens_ = tokenize(variant, input_)
  /\ Lexemes(tokens_) = << <<"SELECT", W("SELECT")>>, <<"IDENTIFIER", W("a")>>,
                           <<"MINUS", <<"-">> >>, <<"MINUS", <<"-">> >>,
                           <<"IDENTIFIER", W("c")>> >>
  /\ Lexemes(tokenize(variant, Join(<<W("SELECT"), W("a")>>) \o <<" ">>)) =
       << <<"SELECT", W("SELECT")>>, <<"IDENTIFIER", W("a")>>, <<"END_OF_FILE", <<>> >> >>


\* C24: when parse() returns a statement and records no error, every token
\* it has not consumed is a semicolon or the end-of-input token.
C24_AllTokensConsumed ==
  (Parsed /\ statement # Null /\ error_ = NoError) =>
    \A i \in (current_token_ + 1)..Len(tokens_) :
      tokens_[i].type \in {"SEMICOLON", "END_OF_FILE"}

\* `SELECT a FROM t t` is accepted with the second t left unread
C24_Witness ==
  /\ Parsed
  /\ variant = "seal"
  /\ input_ = Join(<<W("SELECT"), W("a"), W("FROM"), W("t"), W("t")>>)
  /\ statement # Null
  /\ statement.kind = "SelectStatement"
  /\ error_ = NoError
  /\ current_token_ = 4
  /\ Len(tokens_) = 5
  /\ tokens_[5].type = "IDENTIFIER"

----------------------------------------------------------------------------
(* Planner and Optimizer.  A plan is [root |-> node] or Null; a node has a *)
(* type, its payload, cost, estimated_rows and the sequence of its         *)
(* children.  d is the cost and row estimate a node is constructed with.   *)

RECURSIVE clone(_)
clone(e) ==
  CASE e.kind = "LiteralExpression" -> LiteralExpression(e.type, e.value)
    [] e.kind = "IdentifierExpression" -> IdentifierExpression(e.name)
    [] e.kind = "BinaryExpression" ->
         BinaryExpression(e.op, clone(e.left), clone(e.right))
    [] e.kind = "FunctionCallExpression" ->
         FunctionCallExpression(e.name, [i \in 1..Len(e.arguments) |-> clone(e.arguments[i])])
    [] OTHER -> e

CloneAll(list) == [i \in 1..Len(list) |-> clone(list[i])]

\* `x ? x->clone() : nullptr`
CloneOrNull(e) == IF e # Null THEN clone(e) ELSE Null

ExecutionPlan(root) == [root |-> root]

create_scan_node(table_name) ==
  [type |-> "Scan", table_name |-> table_name, cost |-> 100, estimated_rows |-> 1000,
   children |-> <<>>]

create_filter_node(child, condition) ==
  [type |-> "Filter", condition |-> condition, cost |-> 50, estimated_rows |-> 500,
   children |-> <<child>>]

create_project_node(child, expressions) ==
  [type |-> "Project", expressions |-> expressions, cost |-> 10, estimated_rows |-> 500,
   children |-> <<child>>]

create_join_node(left, right, condition, join_type) ==
  [type |-> "Join", join_type |-> join_type, condition |-> condition, cost |-> 200,
   estimated_rows |-> 1000, children |-> <<left, right>>]

create_aggregate_node(child, group_by, having) ==
  [type |-> "Aggregate", group_by |-> group_by, having |-> having, cost |-> 150,
   estimated_rows |-> 100, children |-> <<child>>]

create_sort_node(child, order_by) ==
  [type |-> "Sort", order_by |-> order_by, cost |-> 300, estimated_rows |-> 500,
   children |-> <<child>>]

create_limit_node(child, limit, offset) ==
  [type |-> "Limit", limit |-> limit, offset |-> offset, cost |-> 5,
   estimated_rows |-> 10, children |-> <<child>>]

plan_select(stmt) ==
  LET Filter(n) ==
        IF stmt.where_clause # Null
        THEN create_filter_node(n, clone(stmt.where_clause)) ELSE n
      Aggregate(n) ==
        IF stmt.group_by # <<>>
        THEN create_aggregate_node(n, CloneAll(stmt.group_by),
                                   CloneOrNull(stmt.having_clause))
        ELSE n
      Sort(n) ==
        IF stmt.order_by # <<>> THEN create_sort_node(n, CloneAll(stmt.order_by)) ELSE n
      Limit(n) ==
        IF stmt.limit # Null
        THEN create_limit_node(n, clone(stmt.limit), CloneOrNull(stmt.offset))
        ELSE n
      Project(n) == create_project_node(n, CloneAll(stmt.select_list))
  IN  IF stmt.from_tables = <<>>
      THEN Null
      ELSE ExecutionPlan(
             Project(Limit(Sort(Aggregate(Filter(create_scan_node(stmt.from_tables[1])))))))

plan_insert(stmt, d) ==
  ExecutionPlan([type |-> "Insert", table_name |-> stmt.table_name,
                 columns |-> stmt.columns, values |-> <<>>, cost |-> d.cost,
                 estimated_rows |-> d.estimated_rows, children |-> <<>>])

plan_update(stmt, d) ==
  ExecutionPlan([type |-> "Update", table_name |-> stmt.table_name, set_clause |-> <<>>,
                 where_condition |-> CloneOrNull(stmt.where_clause), cost |-> d.cost,
                 estimated_rows |-> d.estimated_rows, children |-> <<>>])

plan_delete(stmt, d) ==
  ExecutionPlan([type |-> "Delete", table_name |-> stmt.table_name,
                 where_condition |-> CloneOrNull(stmt.where_clause), cost |-> d.cost,
                 estimated_rows |-> d.estimated_rows, children |-> <<>>])

plan_create_table(stmt, d) ==
  ExecutionPlan([type |-> "CreateTable", table_name |-> stmt.table_name,
                 columns |-> <<>>, cost |-> d.cost,
                 estimated_rows |-> d.estimated_rows, children |-> <<>>])

plan_drop_table(stmt, d) ==
  ExecutionPlan([type |-> "DropTable", table_name |-> stmt.table_name, cost |-> d.cost,
                 estimated_rows |-> d.estimated_rows, children |-> <<>>])

\* Planner::plan(statement)
plan(stmt, d) ==
  CASE stmt = Null -> Null
    [] stmt.kind = "SelectStatement" -> plan_select(stmt)
    [] stmt.kind = "InsertStatement" -> plan_insert(stmt, d)
    [] stmt.kind = "UpdateStatement" -> plan_update(stmt, d)
    [] stmt.kind = "DeleteStatement" -> plan_delete(stmt, d)
    [] stmt.kind = "CreateTableStatement" -> plan_create_table(stmt, d)
    [] stmt.kind = "DropTableStatement" -> plan_drop_table(stmt, d)
    [] OTHER -> Null

\* The root's cost alone
RootCost(p) == IF p.root = Null THEN 0 ELSE p.root.cost

\* The value ExecutionPlan::get_total_cost() returns: the root's cost and,
\* for every child still held, the total of the plan made of it
RECURSIVE NodeTotalCost(_), ChildrenTotalCost(_, _)
NodeTotalCost(node) ==
  IF node = Null THEN 0 ELSE node.cost + ChildrenTotalCost(node.children, 1)

ChildrenTotalCost(children, i) ==
  IF i > Len(children) THEN 0
  ELSE NodeTotalCost(children[i]) + ChildrenTotalCost(children, i + 1)

get_total_cost(p) == NodeTotalCost(p.root)

get_total_rows(p) == IF p.root = Null THEN 0 ELSE p.root.estimated_rows

\* PlanNode::to_string() of each node type, as the pieces written to the stream
NodeToString(n) ==
  CASE n.type = "Scan" -> <<"Scan(", n.table_name, ")">>
    [] n.type = "Join" ->
         <<"Join(", n.join_type, ", ",
           IF n.condition # Null THEN "condition" ELSE "null", ")">>
    [] n.type = "Filter" ->
         <<"Filter(", IF n.condition # Null THEN "condition" ELSE "null", ")">>
    [] n.type = "Project" -> <<"Project(", Len(n.expressions), " columns)">>
    [] n.type = "Aggregate" ->
         <<"Aggregate(", Len(n.group_by), " groups, ",
           IF n.having # Null THEN "having" ELSE "no having", ")">>
    [] n.type = "Sort" -> <<"Sort(", Len(n.order_by), " columns)">>
    [] n.type = "Limit" ->
         <<"Limit(", IF n.limit # Null THEN "limit" ELSE "no limit", ", ",
           IF n.offset # Null THEN "offset" ELSE "no offset", ")">>
    [] n.type = "Insert" ->
         <<"Insert(", n.table_name, ", ", Len(n.columns), " columns, ", Len(n.values),
           " rows)">>
    [] n.type = "Update" ->
         <<"Update(", n.table_name, ", ", Len(n.set_clause), " updates)">>
    [] n.type = "Delete" ->
         <<"Delete(", n.table_name, ", ",
           IF n.where_condition # Null THEN "with condition" ELSE "no condition", ")">>
    [] n.type = "CreateTable" ->
         <<"CreateTable(", n.table_name, ", ", Len(n.columns), " columns)">>
    [] n.type = "DropTable" -> <<"DropTable(", n.table_name, ")">>

\* The text ExecutionPlan::to_string() returns
to_string(p) ==
  IF p.root = Null THEN <<"Empty Plan">>
  ELSE <<"ExecutionPlan {\n", "  Root: ", NodeToString(p.root), "\n",
         "  Cost: ", get_total_cost(p), "\n",
         "  Estimated Rows: ", get_total_rows(p), "\n", "}">>

\* The plan object after get_total_cost() has run on it: the loop moves
\* every child of the root out of the root's child list into a temporary
\* ExecutionPlan, which destroys the child when the iteration ends; the
\* list keeps a null pointer in each place.
MovedOut(p) ==
  IF p.root = Null THEN p
  ELSE [p EXCEPT !.root.children = [i \in 1..Len(@) |-> Null]]

\* A plan whose root costs one more
CostlierPlan(p) == IF p = Null THEN p ELSE [p EXCEPT !.root.cost = @ + 1]

\* Each pass returns the plan it is given, with or without a root
apply_predicate_pushdown(p) == IF p = Null \/ p.root = Null THEN p ELSE p

apply_index_selection(p) == IF p = Null \/ p.root = Null THEN p ELSE p

apply_column_pruning(p) == IF p = Null \/ p.root = Null THEN p ELSE p

apply_subquery_optimization(p) == IF p = Null \/ p.root = Null THEN p ELSE p

\* The passes of optimize_update with their order exchanged
ExchangedPasses(stmt_kind) ==
  CASE stmt_kind = "SelectStatement" ->
         <<"predicate_pushdown", "index_selection", "column_pruning",
           "subquery_optimization">>
    [] stmt_kind \in {"UpdateStatement", "DeleteStatement"} ->
         <<"index_selection", "predicate_pushdown">>
    [] OTHER -> <<>>

\* The passes optimize_select, optimize_insert, optimize_update,
\* optimize_delete, optimize_create_table and optimize_drop_table apply to
\* the Planner's plan, in the order of their calls
optimize_passes(stmt_kind) ==
  CASE stmt_kind = "SelectStatement" ->
         <<"predicate_pushdown", "index_selection", "column_pruning",
           "subquery_optimization">>
    [] stmt_kind \in {"UpdateStatement", "DeleteStatement"} ->
         <<"predicate_pushdown", "index_selection">>
    [] OTHER -> <<>>

----------------------------------------------------------------------------
(* Statements handed to the Planner and the Optimizer                      *)

\* Longest FROM list
MaxTables == 2

\* Longest GROUP BY and ORDER BY list
MaxKeys == 2

\* Most calls made on one returned plan
MaxCalls == 2

\* The lists of at most n elements of S
Lists(S, n) == UNION { [1..k -> S] : k \in 0..n }

SomeCondition ==
  BinaryExpression("GREATER", IdentifierExpression(W("age")),
                   LiteralExpression("INTEGER", <<"1", "8">>))

SomeNumber == LiteralExpression("INTEGER", <<"5">>)

SelectStatements ==
  { [kind |-> "SelectStatement", select_list |-> <<IdentifierExpression(W("a"))>>,
     from_tables |-> f, where_clause |-> w, group_by |-> g, having_clause |-> h,
     order_by |-> o, limit |-> l, offset |-> off] :
      f \in Lists({W("users"), W("t")}, MaxTables),
      w \in {Null, SomeCondition},
      g \in Lists({IdentifierExpression(W("a"))}, MaxKeys),
      h \in {Null, SomeCondition},
      o \in Lists({IdentifierExpression(W("b"))}, MaxKeys),
      l \in {Null, SomeNumber},
      off \in {Null, SomeNumber} }

OtherStatements ==
  { [kind |-> "InsertStatement", table_name |-> W("users"),
     columns |-> <<W("id"), W("name")>>,
     values |-> <<<<SomeNumber, LiteralExpression("STRING", W("John"))>>>>],
    [kind |-> "CreateTableStatement", table_name |-> W("users"),
     columns |-> <<ColumnDefinition(W("id"), W("INT"))>>],
    [kind |-> "DropTableStatement", table_name |-> W("users")] }
  \cup { [kind |-> "UpdateStatement", table_name |-> W("users"),
          set_clause |-> <<<<W("age"), SomeNumber>>>>, where_clause |-> w] :
            w \in {Null, SomeCondition} }
  \cup { [kind |-> "DeleteStatement", table_name |-> W("users"), where_clause |-> w] :
            w \in {Null, SomeCondition} }

Statements == SelectStatements \cup OtherStatements \cup {Null}

\* PlanNode's constructor is in sealdb/planner.h; a node that is given no
\* cost and no row estimate keeps what the constructor set.
NodeDefaults ==
  { [cost |-> 0, estimated_rows |-> 0], [cost |-> 1, estimated_rows |-> 1] }

----------------------------------------------------------------------------
(* Planner::plan and Optimizer::optimize as a state machine                *)

\* No text is being lexed or parsed
FrontEndIdle ==
  /\ variant = "legacy"
  /\ input_ = <<>>
  /\ kind = "none"
  /\ lexer_ = LexerStart
  /\ tokens_ = <<>>
  /\ pc = "idle"
  /\ current_token_ = 0
  /\ error_ = NoError
  /\ statement = Null
  /\ frame = NoFrame
  /\ result = NoResult
  /\ reported = <<>>

PlanInit ==
  /\ FrontEndIdle
  /\ AstIdle
  /\ StatsIdle
  /\ EstimatorIdle
  /\ PoolIdle
  /\ query \in Statements
  /\ node_defaults \in NodeDefaults
  /\ plan_ = Null
  /\ opc = "start"
  /\ applied = <<>>
  /\ observed = <<>>

\* Planner::plan(statement) returns
Plan ==
  /\ opc = "start"
  /\ plan_' = plan(query, node_defaults)
  /\ opc' = "planned"
  /\ UNCHANGED <<query, node_defaults, applied, observed>>
  /\ UNCHANGED beside_planner

\* Optimizer::optimize(statement) up to its first pass: the Planner's plan
\* is taken; optimize_select, optimize_update and optimize_delete return
\* nullptr when there is none, and a null statement returns nullptr at once.
Optimize ==
  /\ opc = "start"
  /\ LET Planned(p) ==
           /\ plan_' = p
           /\ opc' = IF p = Null \/ optimize_passes(query.kind) = <<>>
                     THEN "optimized" ELSE "passes"
     IN  IF query = Null
         THEN plan_' = Null /\ opc' = "optimized"
         ELSE Planned(plan(query, node_defaults))
  /\ UNCHANGED <<query, node_defaults, applied, observed>>
  /\ UNCHANGED beside_planner

\* plan = apply_<name>(std::move(plan)), the next call of the running
\* optimize_* function; after the last one the function returns plan.
RunPass(name, output) ==
  /\ opc = "passes"
  /\ optimize_passes(query.kind)[Len(applied) + 1] = name
  /\ plan_' = output
  /\ applied' = Append(applied, [pass |-> name, input |-> plan_, output |-> output])
  /\ opc' = IF Len(applied) + 1 = Len(optimize_passes(query.kind))
            THEN "optimized" ELSE "passes"
  /\ UNCHANGED <<query, node_defaults, observed>>
  /\ UNCHANGED beside_planner

PredicatePushdown == RunPass("predicate_pushdown", apply_predicate_pushdown(plan_))

IndexSelection == RunPass("index_selection", apply_index_selection(plan_))

ColumnPruning == RunPass("column_pruning", apply_column_pruning(plan_))

SubqueryOptimization ==
  RunPass("subquery_optimization", apply_subquery_optimization(plan_))

\* A caller joins the planned tree with a scan of the second table:
\* Planner::create_join_node(left, right, condition, join_type)
Join2 ==
  /\ opc = "planned"
  /\ plan_ # Null
  /\ query.kind = "SelectStatement"
  /\ Len(query.from_tables) = 2
  /\ plan_' = ExecutionPlan(create_join_node(plan_.root,
                                             create_scan_node(query.from_tables[2]),
                                             Null, "INNER"))
  /\ opc' = "joined"
  /\ UNCHANGED <<query, node_defaults, applied, observed>>
  /\ UNCHANGED beside_planner

\* The holder of a returned plan calls one of its const member functions
Observes(call, value, after) ==
  /\ opc \in {"planned", "joined", "optimized", "observed"}
  /\ plan_ # Null
  /\ Len(observed) < MaxCalls
  /\ observed' = Append(observed, [call |-> call, before |-> plan_, value |-> value,
                                   after |-> after])
  /\ plan_' = after
  /\ opc' = "observed"
  /\ UNCHANGED <<query, node_defaults, applied>>
  /\ UNCHANGED beside_planner

\* plan->get_total_cost()
GetTotalCost == Observes("get_total_cost", get_total_cost(plan_), MovedOut(plan_))

\* plan->get_total_rows()
GetTotalRows == Observes("get_total_rows", get_total_rows(plan_), plan_)

\* plan->to_string(), which calls get_total_cost() and get_total_rows()
PlanToString == Observes("to_string", to_string(plan_), MovedOut(plan_))

PlanNext ==
  \/ Plan
  \/ Optimize
  \/ PredicatePushdown
  \/ IndexSelection
  \/ ColumnPruning
  \/ SubqueryOptimization
  \/ Join2
  \/ GetTotalCost
  \/ GetTotalRows
  \/ PlanToString

PlanSpec == PlanInit /\ [][PlanNext]_vars

----------------------------------------------------------------------------
(* Properties of the Planner and the Optimizer                             *)

\* The node types of a chain, root first
RECURSIVE Chain(_)
Chain(node) ==
  IF node.children = <<>> THEN <<node.type>>
  ELSE <<node.type>> \o Chain(node.children[1])

\* Every node of the tree has at most one child
RECURSIVE IsChain(_)
IsChain(node) ==
  Len(node.children) <= 1 /\ (node.children # <<>> => IsChain(node.children[1]))

RECURSIVE NodeOfType(_, _)
NodeOfType(node, type) ==
  IF node.type = type THEN node ELSE NodeOfType(node.children[1], type)

Optional(present, type) == IF present THEN <<type>> ELSE <<>>

\* C5: the plan of a SELECT with a FROM list is one chain: Project,
\* Limit iff LIMIT or OFFSET, Sort iff ORDER BY, Aggregate iff GROUP BY
\* (with the HAVING), Filter iff WHERE, Scan of the first table.
C5_SelectChain ==
  (opc = "planned" /\ query # Null /\ query.kind = "SelectStatement"
     /\ query.from_tables # <<>>) =>
    /\ plan_ # Null
    /\ IsChain(plan_.root)
    /\ Chain(plan_.root) =
         <<"Project">>
         \o Optional(query.limit # Null \/ query.offset # Null, "Limit")
         \o Optional(query.order_by # <<>>, "Sort")
         \o Optional(query.group_by # <<>>, "Aggregate")
         \o Optional(query.where_clause # Null, "Filter")
         \o <<"Scan">>
    /\ NodeOfType(plan_.root, "Scan").table_name = query.from_tables[1]
    /\ query.group_by # <<>> =>
         NodeOfType(plan_.root, "Aggregate").having = query.having_clause

C5_Witness ==
  /\ opc = "planned"
  /\ query # Null /\ query.kind = "SelectStatement"
  /\ query.limit = Null /\ query.offset # Null
  /\ plan_ # Null
  /\ Chain(plan_.root) = <<"Project", "Scan">>

PassNames == [i \in 1..Len(applied) |-> applied[i].pass]

\* C9: the passes run on the Planner's plan in the order of the statement
\* kind, each on the output of the one before, and none when there is no
\* plan, which is then what optimize returns.
C9_PassOrder ==
  LET expected ==
        CASE query = Null -> <<>>
          [] query.kind = "SelectStatement" /\ query.from_tables # <<>> ->
               <<"predicate_pushdown", "index_selection", "column_pruning",
                 "subquery_optimization">>
          [] query.kind \in {"UpdateStatement", "DeleteStatement"} ->
               <<"predicate_pushdown", "index_selection">>
          [] OTHER -> <<>>
  IN  /\ opc \in {"passes", "optimized"} =>
          /\ Len(applied) <= Len(expected)
          /\ PassNames = SubSeq(expected, 1, Len(applied))
          /\ \A i \in 1..Len(applied) :
               applied[i].input = IF i = 1 THEN plan(query, node_defaults)
                                  ELSE applied[i - 1].output
          /\ plan_ = IF applied = <<>> THEN plan(query, node_defaults)
                     ELSE applied[Len(applied)].output
      /\ opc = "optimized" =>
          /\ PassNames = expected
          /\ (query # Null /\ query.kind = "SelectStatement" /\ query.from_tables = <<>>)
               => plan_ = Null

C9_Witness ==
  /\ opc = "optimized"
  /\ PassNames = <<"predicate_pushdown", "index_selection", "column_pruning",
                   "subquery_optimization">>
  /\ plan_ # Null

\* The passes of `names` applied one after the other
RECURSIVE ApplyPasses(_, _)
ApplyPasses(names, p) ==
  IF names = <<>> THEN p
  ELSE ApplyPasses(Tail(names),
         CASE Head(names) = "predicate_pushdown" -> apply_predicate_pushdown(p)
           [] Head(names) = "index_selection" -> apply_index_selection(p)
           [] Head(names) = "column_pruning" -> apply_column_pruning(p)
           [] Head(names) = "subquery_optimization" -> apply_subquery_optimization(p))

\* C10: every pass returns its input, at no higher total cost and with the
\* same text, and the passes applied again to an optimized plan leave its
\* text and its total cost as they are.
C10_PassesPreserve ==
  /\ \A i \in 1..Len(applied) :
       /\ applied[i].output = applied[i].input
       /\ get_total_cost(applied[i].output) <= get_total_cost(applied[i].input)
       /\ to_string(applied[i].output) = to_string(applied[i].input)
  /\ (opc = "optimized" /\ plan_ # Null) =>
       /\ to_string(ApplyPasses(optimize_passes(query.kind), plan_)) = to_string(plan_)
       /\ get_total_cost(ApplyPasses(optimize_passes(query.kind), plan_))
            = get_total_cost(plan_)

C10_Witness ==
  /\ opc = "optimized"
  /\ Len(applied) = 4
  /\ plan_ # Null
  /\ Chain(plan_.root) = <<"Project", "Limit", "Sort", "Aggregate", "Filter", "Scan">>
  /\ get_total_cost(plan_) = 615

----------------------------------------------------------------------------
(* Properties of the calls made on a returned plan                         *)

\* Every node of the tree under `node`, each once
RECURSIVE NodesOf(_), NodesOfAll(_)
NodesOf(node) ==
  IF node = Null THEN <<>> ELSE <<node>> \o NodesOfAll(node.children)

NodesOfAll(children) ==
  IF children = <<>> THEN <<>>
  ELSE NodesOf(Head(children)) \o NodesOfAll(Tail(children))

RECURSIVE SumCost(_)
SumCost(nodes) == IF nodes = <<>> THEN 0 ELSE Head(nodes).cost + SumCost(Tail(nodes))

\* C11: get_total_cost() returns the sum of the own costs of all the nodes
\* of the tree it is called on, each counted once, for chains and for
\* trees with two children alike.
C11_TotalCostIsSum ==
  \A i \in 1..Len(observed) :
    observed[i].call = "get_total_cost" =>
      observed[i].value = SumCost(NodesOf(observed[i].before.root))

C11_Witness ==
  \E i \in 1..Len(observed) :
    /\ observed[i].call = "get_total_cost"
    /\ observed[i].before.root.type = "Join"
    /\ Len(NodesOf(observed[i].before.root)) = 8
    /\ observed[i].value = 915

\* C12: get_total_cost(), get_total_rows() and to_string() leave the plan
\* as it was, every node with all its children, and a call repeated
\* returns what it returned before.
C12_ObserversPure ==
  /\ \A i \in 1..Len(observed) : observed[i].after = observed[i].before
  /\ \A i, j \in 1..Len(observed) :
       observed[i].call = observed[j].call => observed[i].value = observed[j].value

C12_Witness ==
  /\ Len(observed) = 2
  /\ observed[1].call = "get_total_cost" /\ observed[1].value = 615
  /\ observed[2].call = "get_total_cost" /\ observed[2].value = 10
  /\ Len(observed[1].before.root.children) = 1
  /\ observed[1].after.root.children = <<Null>>

\* C13: the plan of an INSERT, UPDATE, DELETE, CREATE TABLE or DROP TABLE
\* is one node without children that holds the statement's payload: the
\* table, and the columns and value rows, the assignments and the WHERE,
\* the WHERE, the column definitions, as the kind has them.
C13_LeafCarriesPayload ==
  (opc = "planned" /\ query # Null /\ query.kind # "SelectStatement") =>
    /\ plan_ # Null
    /\ plan_.root.children = <<>>
    /\ plan_.root.table_name = query.table_name
    /\ CASE query.kind = "InsertStatement" ->
               /\ plan_.root.type = "Insert"
               /\ plan_.root.columns = query.columns
               /\ plan_.root.values = query.values
          [] query.kind = "UpdateStatement" ->
               /\ plan_.root.type = "Update"
               /\ plan_.root.set_clause = query.set_clause
               /\ plan_.root.where_condition = query.where_clause
          [] query.kind = "DeleteStatement" ->
               /\ plan_.root.type = "Delete"
               /\ plan_.root.where_condition = query.where_clause
          [] query.kind = "CreateTableStatement" ->
               /\ plan_.root.type = "CreateTable"
               /\ plan_.root.columns = query.columns
          [] query.kind = "DropTableStatement" -> plan_.root.type = "DropTable"

C13_Witness ==
  /\ opc = "planned"
  /\ query # Null /\ query.kind = "InsertStatement"
  /\ Len(query.values) = 1
  /\ plan_ # Null /\ plan_.root.type = "Insert"
  /\ plan_.root.columns = query.columns
  /\ plan_.root.values = <<>>

----------------------------------------------------------------------------
(* Expression::clone() on the objects of an expression tree.  An object is *)
(* held at an address of `heap`; an operand or argument is the address of  *)
(* the object owned, 0 for a null pointer.                                 *)

\* An object that has been destroyed
Freed == [kind |-> "freed"]

\* std::make_unique<...>(...): a new object at the next address
Alloc(h, node) == [heap |-> Append(h, node), addr |-> Len(h) + 1, ok |-> TRUE]

\* A member function called through a null pointer
Crash(h) == [heap |-> h, addr |-> 0, ok |-> FALSE]

\* The objects of the expression e, built bottom-up as the parser does
RECURSIVE Build(_, _), BuildAll(_, _, _)
Build(h, e) ==
  CASE e = Null -> [heap |-> h, addr |-> 0, ok |-> TRUE]
    [] e.kind = "BinaryExpression" ->
         LET Right(l) ==
               LET Node(r) == Alloc(r.heap, BinaryExpression(e.op, l.addr, r.addr))
               IN  Node(Build(l.heap, e.right))
         IN  Right(Build(h, e.left))
    [] e.kind = "FunctionCallExpression" ->
         LET Node(args) == Alloc(args.heap, FunctionCallExpression(e.name, args.addrs))
         IN  Node(BuildAll(h, e.arguments, <<>>))
    [] OTHER -> Alloc(h, e)

BuildAll(h, list, addrs) ==
  IF list = <<>> THEN [heap |-> h, addrs |-> addrs]
  ELSE LET Next1(r) == BuildAll(r.heap, Tail(list), Append(addrs, r.addr))
       IN  Next1(Build(h, Head(list)))

\* p->clone() for the pointer a: LiteralExpression::clone,
\* IdentifierExpression::clone, BinaryExpression::clone,
\* FunctionCallExpression::clone and ColumnReference::clone
RECURSIVE clone_at(_, _), clone_arguments(_, _, _)
clone_at(h, a) ==
  IF a = 0 THEN Crash(h)
  ELSE CASE h[a].kind = "LiteralExpression" ->
              Alloc(h, LiteralExpression(h[a].type, h[a].value))
         [] h[a].kind = "IdentifierExpression" ->
              Alloc(h, IdentifierExpression(h[a].name))
         [] h[a].kind = "ColumnReference" ->
              Alloc(h, ColumnReference(h[a].tableName, h[a].columnName))
         [] h[a].kind = "BinaryExpression" ->
              LET Right(l) ==
                    LET Node(r) ==
                          IF r.ok THEN Alloc(r.heap, BinaryExpression(h[a].op, l.addr, r.addr))
                          ELSE r
                    IN  IF l.ok THEN Node(clone_at(l.heap, h[a].right)) ELSE l
              IN  Right(clone_at(h, h[a].left))
         [] h[a].kind = "FunctionCallExpression" ->
              LET Node(args) ==
                    IF args.ok
                    THEN Alloc(args.heap, FunctionCallExpression(h[a].name, args.addrs))
                    ELSE Crash(args.heap)
              IN  Node(clone_arguments(h, h[a].arguments, <<>>))

\* for (const auto& arg : arguments_) cloned_args.push_back(arg->clone());
clone_arguments(h, arguments, cloned_args) ==
  IF arguments = <<>> THEN [heap |-> h, addrs |-> cloned_args, ok |-> TRUE]
  ELSE LET Pushed(r) ==
             IF r.ok
             THEN clone_arguments(r.heap, Tail(arguments), Append(cloned_args, r.addr))
             ELSE [heap |-> r.heap, addrs |-> cloned_args, ok |-> FALSE]
       IN  Pushed(clone_at(h, Head(arguments)))

\* The addresses of the objects of the tree at a
RECURSIVE NodesAt(_, _)
NodesAt(h, a) ==
  IF a = 0 \/ h[a] = Freed THEN {}
  ELSE CASE h[a].kind = "BinaryExpression" ->
              {a} \cup NodesAt(h, h[a].left) \cup NodesAt(h, h[a].right)
         [] h[a].kind = "FunctionCallExpression" ->
              {a} \cup UNION { NodesAt(h, h[a].arguments[i]) :
                                 i \in 1..Len(h[a].arguments) }
         [] OTHER -> {a}

\* The expression the tree at a is
RECURSIVE ValueAt(_, _)
ValueAt(h, a) ==
  IF a = 0 THEN Null
  ELSE CASE h[a].kind = "BinaryExpression" ->
              BinaryExpression(h[a].op, ValueAt(h, h[a].left), ValueAt(h, h[a].right))
         [] h[a].kind = "FunctionCallExpression" ->
              FunctionCallExpression(h[a].name,
                [i \in 1..Len(h[a].arguments) |-> ValueAt(h, h[a].arguments[i])])
         [] OTHER -> h[a]

\* An object with another name, value or operator
Renamed(node) ==
  CASE node.kind = "LiteralExpression" -> [node EXCEPT !.value = <<"9">>]
    [] node.kind = "IdentifierExpression" -> [node EXCEPT !.name = W("x")]
    [] node.kind = "ColumnReference" -> [node EXCEPT !.columnName = W("x")]
    [] node.kind = "BinaryExpression" -> [node EXCEPT !.op = "MODULO"]
    [] node.kind = "FunctionCallExpression" -> [node EXCEPT !.name = W("x")]

AstLeafA == IdentifierExpression(W("a"))
AstLeafOne == LiteralExpression("INTEGER", <<"1">>)

\* Expressions the parsers build; the ones with a null operand or argument
\* are what parse_primary's nullptr leaves in a BinaryExpression or an
\* argument list after an error
AstExpressions ==
  { AstLeafOne, AstLeafA, ColumnReference(W("t"), W("a")),
    BinaryExpression("ADD", AstLeafA, AstLeafOne),
    BinaryExpression("AND", BinaryExpression("EQUAL", AstLeafA, AstLeafOne),
                     ColumnReference(W("t"), W("b"))),
    FunctionCallExpression(W("COUNT"), <<>>),
    FunctionCallExpression(W("COUNT"), <<AstLeafA, BinaryExpression("ADD", AstLeafA, AstLeafOne)>>),
    BinaryExpression("MULTIPLY", Null, Null),
    BinaryExpression("ADD", AstLeafA, Null),
    FunctionCallExpression(W("COUNT"), <<Null>>) }

AstInit ==
  /\ FrontEndIdle
  /\ PlannerIdle
  /\ StatsIdle
  /\ EstimatorIdle
  /\ PoolIdle
  /\ built \in AstExpressions
  /\ heap = Build(<<>>, built).heap
  /\ original = Build(<<>>, built).addr
  /\ copy = 0
  /\ touched = {}
  /\ apc = "built"

\* copy = original->clone().  A call through a null pointer inside it is
\* undefined: the process ends there, or the call comes back with some
\* pointer, null or to any object.
Clone ==
  /\ apc = "built"
  /\ LET Returned(r) ==
           /\ heap' = r.heap
           /\ IF r.ok
              THEN copy' = r.addr /\ apc' = "cloned"
              ELSE \/ copy' = 0 /\ apc' = "crashed"
                   \/ copy' \in 0..Len(r.heap) /\ apc' = "cloned"
     IN  Returned(clone_at(heap, original))
  /\ UNCHANGED <<original, built, touched>>
  /\ UNCHANGED beside_ast

\* An object of one of the two trees is changed
Mutate ==
  /\ apc = "cloned"
  /\ \E tree \in {"original", "copy"} :
       \E a \in NodesAt(heap, IF tree = "original" THEN original ELSE copy) :
         /\ heap' = [heap EXCEPT ![a] = Renamed(@)]
         /\ touched' = touched \cup {tree}
  /\ UNCHANGED <<original, copy, built, apc>>
  /\ UNCHANGED beside_ast

\* The owner of one of the two trees lets go of it: every object of the
\* tree is destroyed
Destroy ==
  /\ apc = "cloned"
  /\ \E tree \in {"original", "copy"} :
       LET root == IF tree = "original" THEN original ELSE copy
       IN  /\ root # 0
           /\ heap' = [a \in DOMAIN heap |->
                         IF a \in NodesAt(heap, root) THEN Freed ELSE heap[a]]
           /\ original' = IF tree = "original" THEN 0 ELSE original
           /\ copy' = IF tree = "copy" THEN 0 ELSE copy
           /\ touched' = touched \cup {tree}
  /\ UNCHANGED <<built, apc>>
  /\ UNCHANGED beside_ast

AstNext ==
  \/ Clone
  \/ Mutate
  \/ Destroy

AstSpec == AstInit /\ [][AstNext]_vars

\* C19: clone() returns a tree equal to the original at every depth that
\* shares no object with it; changing or destroying one of the two leaves
\* the other as the expression was built.
C19_CloneIndependent ==
  apc \in {"cloned", "crashed"} =>
    /\ apc = "cloned"
    /\ NodesAt(heap, original) \cap NodesAt(heap, copy) = {}
    /\ touched = {} => (ValueAt(heap, copy) = built /\ ValueAt(heap, original) = built)
    /\ (original # 0 /\ "original" \notin touched) => ValueAt(heap, original) = built
    /\ (copy # 0 /\ "copy" \notin touched) => ValueAt(heap, copy) = built

C19_Witness ==
  /\ apc = "crashed"
  /\ built = BinaryExpression("MULTIPLY", Null, Null)
  /\ copy = 0

----------------------------------------------------------------------------
(* StatisticsManager, src/sql/optimizer/statistics_manager.cpp.            *)
(* table_stats_ maps a table name to [row_count, column_stats], and        *)
(* column_stats a column name to [distinct_values].  size_t is modelled    *)
(* with SizeModulus values, a selectivity as the fraction num / den.       *)

\* Number of values of size_t in the model (2^64 in the build)
SizeModulus == 256

TableNames == {"users", "orders"}
ColumnNames == {"id", "name"}
IndexNames == {"idx_users_id", "idx_orders_id"}
RowCounts == {16}
Heights == {1, 2}
DistinctValues == {16}

ColumnStats(distinct_values) == [distinct_values |-> distinct_values]

TableStats(row_count, column_stats) ==
  [row_count |-> row_count, column_stats |-> column_stats]

IndexStats(index_name, height) == [index_name |-> index_name, height |-> height]

\* The TableStats a caller passes to update_table_stats
TableStatsInputs ==
  {TableStats(n, cs) : n \in RowCounts,
                       cs \in {<<>>, [c \in {"id"} |-> ColumnStats(4)]}}

\* nullptr
NoStats == [none |-> TRUE]

get_table_stats(stats, table_name) ==
  IF table_name \in DOMAIN stats THEN stats[table_name] ELSE NoStats

get_column_stats(stats, table_name, column_name) ==
  IF table_name \notin DOMAIN stats THEN NoStats
  ELSE IF column_name \in DOMAIN stats[table_name].column_stats
       THEN stats[table_name].column_stats[column_name]
       ELSE NoStats

get_index_stats(stats, index_name) ==
  IF index_name \in DOMAIN stats THEN stats[index_name] ELSE NoStats

\* table_stats_[table_name] = stats with the column stats of the old entry kept
merge_table_stats(stats, table_name, new) ==
  [t \in DOMAIN stats \cup {table_name} |->
     IF t # table_name THEN stats[t]
     ELSE IF t \notin DOMAIN stats THEN new
     ELSE [new EXCEPT !.column_stats =
             [c \in DOMAIN new.column_stats \cup DOMAIN stats[t].column_stats |->
                IF c \in DOMAIN new.column_stats THEN new.column_stats[c]
                ELSE stats[t].column_stats[c]]]]

\* table_stats_[table_name] = stats
update_table_stats(stats, table_name, new) ==
  [t \in DOMAIN stats \cup {table_name} |-> IF t = table_name THEN new ELSE stats[t]]

\* table_stats_[table_name].column_stats[column_name] = stats; operator[]
\* value-initializes the TableStats of a table not yet known
update_column_stats(stats, table_name, column_name, new) ==
  LET Entry(old) ==
        [old EXCEPT !.column_stats =
           [c \in DOMAIN old.column_stats \cup {column_name} |->
              IF c = column_name THEN new ELSE old.column_stats[c]]]
  IN  update_table_stats(stats, table_name,
        Entry(IF table_name \in DOMAIN stats THEN stats[table_name]
              ELSE TableStats(0, <<>>)))

\* index_stats_[index_name] = stats
update_index_stats(stats, index_name, new) ==
  [i \in DOMAIN stats \cup {index_name} |-> IF i = index_name THEN new ELSE stats[i]]

\* std::min(a, b) of two fractions: b if b < a, else a
MinFraction(a, b) == IF b.num * a.den < a.num * b.den THEN b ELSE a

\* static_cast<size_t>(rows * selectivity), rows a size_t
Truncated(rows, selectivity) == (rows * selectivity.num) \div selectivity.den

estimate_join_cardinality(stats, left_table, left_column, right_table, right_column) ==
  LET left_stats == get_table_stats(stats, left_table)
      right_stats == get_table_stats(stats, right_table)
      left_col_stats == get_column_stats(stats, left_table, left_column)
      right_col_stats == get_column_stats(stats, right_table, right_column)
  IN  IF left_stats = NoStats \/ right_stats = NoStats THEN 0
      ELSE IF left_col_stats = NoStats \/ right_col_stats = NoStats
      THEN IF right_stats.row_count < left_stats.row_count
           THEN right_stats.row_count ELSE left_stats.row_count
      ELSE Truncated((left_stats.row_count * right_stats.row_count) % SizeModulus,
                     MinFraction([num |-> 1, den |-> left_col_stats.distinct_values],
                                 [num |-> 1, den |-> right_col_stats.distinct_values]))

Fraction(num, den) == [num |-> num, den |-> den]

\* The operators a caller passes as op
Operators == {"=", ">", ">=", "<", "<=", "!=", "LIKE", "<>"}

\* A selectivity that ignores the operator
DefaultSelectivity(stats, op) == Fraction(1, 10)

calculate_column_selectivity(stats, op) ==
  IF op = "=" THEN Fraction(1, stats.distinct_values)
  ELSE IF op = ">" \/ op = ">=" THEN Fraction(3, 10)
  ELSE IF op = "<" \/ op = "<=" THEN Fraction(3, 10)
  ELSE IF op = "!=" THEN Fraction(stats.distinct_values - 1, stats.distinct_values)
  ELSE IF op = "LIKE" THEN Fraction(1, 10)
  ELSE Fraction(1, 10)

estimate_selectivity(stats, table_name, column_name, op) ==
  LET Then(column) ==
        IF column = NoStats THEN Fraction(1, 10)
        ELSE calculate_column_selectivity(column, op)
  IN  Then(get_column_stats(stats, table_name, column_name))

StatsInit ==
  /\ FrontEndIdle
  /\ PlannerIdle
  /\ AstIdle
  /\ EstimatorIdle
  /\ PoolIdle
  /\ table_stats_ = <<>>
  /\ index_stats_ = <<>>
  /\ estimate = NoEstimate
  /\ update = NoUpdate
  /\ spc = "ready"

\* The columns of a table that have ColumnStats
ColumnsOf(stats, table_name) ==
  IF table_name \in DOMAIN stats THEN DOMAIN stats[table_name].column_stats ELSE {}

UpdateTableStats ==
  /\ spc = "ready"
  /\ \E t \in TableNames, new \in TableStatsInputs :
       /\ table_stats_' = update_table_stats(table_stats_, t, new)
       /\ update' = [call |-> "update_table_stats", table_name |-> t, stats |-> new,
                     had |-> ColumnsOf(table_stats_, t)]
  /\ estimate' = NoEstimate
  /\ UNCHANGED <<index_stats_, spc>>
  /\ UNCHANGED beside_stats

UpdateColumnStats ==
  /\ spc = "ready"
  /\ \E t \in TableNames, c \in ColumnNames, d \in DistinctValues :
       /\ table_stats_' = update_column_stats(table_stats_, t, c, ColumnStats(d))
       /\ update' = [call |-> "update_column_stats", table_name |-> t,
                     column_name |-> c, stats |-> ColumnStats(d),
                     had |-> ColumnsOf(table_stats_, t)]
  /\ estimate' = NoEstimate
  /\ UNCHANGED <<index_stats_, spc>>
  /\ UNCHANGED beside_stats

UpdateIndexStats ==
  /\ spc = "ready"
  /\ \E i \in IndexNames, h \in Heights :
       /\ index_stats_' = update_index_stats(index_stats_, i, IndexStats(i, h))
       /\ update' = [call |-> "update_index_stats", index_name |-> i,
                     stats |-> IndexStats(i, h)]
  /\ estimate' = NoEstimate
  /\ UNCHANGED <<table_stats_, spc>>
  /\ UNCHANGED beside_stats

EstimateJoinCardinality ==
  /\ spc = "ready"
  /\ \E l \in TableNames, r \in TableNames, lc \in ColumnNames, rc \in ColumnNames :
       estimate' = [call |-> "estimate_join_cardinality", stats |-> table_stats_,
                    left_table |-> l, left_column |-> lc,
                    right_table |-> r, right_column |-> rc,
                    result |-> estimate_join_cardinality(table_stats_, l, lc, r, rc)]
  /\ update' = NoUpdate
  /\ UNCHANGED <<table_stats_, index_stats_, spc>>
  /\ UNCHANGED beside_stats

EstimateSelectivity ==
  /\ spc = "ready"
  /\ \E t \in TableNames, c \in ColumnNames, op \in Operators :
       estimate' = [call |-> "estimate_selectivity", stats |-> table_stats_,
                    table_name |-> t, column_name |-> c, op |-> op,
                    result |-> estimate_selectivity(table_stats_, t, c, op)]
  /\ update' = NoUpdate
  /\ UNCHANGED <<table_stats_, index_stats_, spc>>
  /\ UNCHANGED beside_stats

StatsNext ==
  \/ UpdateTableStats
  \/ UpdateColumnStats
  \/ UpdateIndexStats
  \/ EstimateJoinCardinality
  \/ EstimateSelectivity

StatsSpec == StatsInit /\ [][StatsNext]_vars

\* The rows of a table as the manager knew them when asked, none for a
\* table unknown
RowsOf(t) == IF t \in DOMAIN estimate.stats THEN estimate.stats[t].row_count ELSE 0

HasColumnStats(t, c) == get_column_stats(estimate.stats, t, c) # NoStats

DistinctOf(t, c) == estimate.stats[t].column_stats[c].distinct_values

Larger(a, b) == IF a >= b THEN a ELSE b

Smaller(a, b) == IF a <= b THEN a ELSE b

\* C20: with ColumnStats for both join columns the estimate is
\* left_rows * right_rows * min(1/left_distinct, 1/right_distinct), as a
\* whole number; without them it is min(left_rows, right_rows).
C20_JoinCardinality ==
  estimate.call = "estimate_join_cardinality" =>
    LET l == estimate.left_table
        r == estimate.right_table
    IN  IF HasColumnStats(l, estimate.left_column) /\ HasColumnStats(r, estimate.right_column)
        THEN estimate.result =
               (RowsOf(l) * RowsOf(r))
                 \div Larger(DistinctOf(l, estimate.left_column),
                             DistinctOf(r, estimate.right_column))
        ELSE estimate.result = Smaller(RowsOf(l), RowsOf(r))

\* 16 rows joined with 16 rows on columns of 16 and 4 distinct values: 0
C20_Witness ==
  /\ estimate.call = "estimate_join_cardinality"
  /\ estimate.left_table = "users" /\ estimate.right_table = "orders"
  /\ RowsOf("users") = 16 /\ RowsOf("orders") = 16
  /\ HasColumnStats("users", "id") /\ HasColumnStats("orders", "id")
  /\ DistinctOf("users", "id") = 16
  /\ DistinctOf("orders", "id") = 4
  /\ estimate.result = 0

\* Two fractions of the same value
SameValue(a, b) == a.num * b.den = b.num * a.den

\* C21: estimate_selectivity is 1/distinct_values for =, 0.3 for >, >=, <
\* and <=, 1 - 1/distinct_values for !=, 0.1 for LIKE, and 0.1 when the
\* column has no ColumnStats.
C21_Selectivity ==
  estimate.call = "estimate_selectivity" =>
    LET op == estimate.op
        t == estimate.table_name
        c == estimate.column_name
    IN  IF ~HasColumnStats(t, c) THEN SameValue(estimate.result, Fraction(1, 10))
        ELSE /\ op = "=" => estimate.result.num * DistinctOf(t, c) = estimate.result.den
             /\ op \in {">", ">=", "<", "<="} => SameValue(estimate.result, Fraction(3, 10))
             /\ op = "!=" =>
                  estimate.result.num * DistinctOf(t, c)
                    = (DistinctOf(t, c) - 1) * estimate.result.den
             /\ op = "LIKE" => SameValue(estimate.result, Fraction(1, 10))

\* != on a column of 16 distinct values: 15/16
C21_Witness ==
  /\ estimate.call = "estimate_selectivity"
  /\ estimate.op = "!="
  /\ HasColumnStats(estimate.table_name, estimate.column_name)
  /\ DistinctOf(estimate.table_name, estimate.column_name) = 16
  /\ estimate.result = Fraction(15, 16)

\* What one step of the StatisticsManager may change, by the update made
UpdateFramed ==
  LET u == update'
      OtherTables(t) ==
        \A t2 \in TableNames \ {t} :
          get_table_stats(table_stats_', t2) = get_table_stats(table_stats_, t2)
  IN  /\ u.call = "none" => table_stats_' = table_stats_ /\ index_stats_' = index_stats_
      /\ u.call = "update_column_stats" =>
           /\ index_stats_' = index_stats_
           /\ OtherTables(u.table_name)
           /\ u.table_name \in DOMAIN table_stats_'
           /\ u.table_name \in DOMAIN table_stats_ =>
                table_stats_'[u.table_name].row_count = table_stats_[u.table_name].row_count
           /\ \A c \in ColumnNames :
                get_column_stats(table_stats_', u.table_name, c)
                  = IF c = u.column_name THEN u.stats
                    ELSE get_column_stats(table_stats_, u.table_name, c)
      /\ u.call = "update_table_stats" =>
           /\ index_stats_' = index_stats_
           /\ OtherTables(u.table_name)
           /\ get_table_stats(table_stats_', u.table_name) = u.stats
           /\ \A c \in ColumnNames :
                get_column_stats(table_stats_', u.table_name, c)
                  = IF c \in DOMAIN u.stats.column_stats THEN u.stats.column_stats[c]
                    ELSE NoStats
      /\ u.call = "update_index_stats" =>
           /\ table_stats_' = table_stats_
           /\ get_index_stats(index_stats_', u.index_name) = u.stats
           /\ \A i \in IndexNames \ {u.index_name} :
                get_index_stats(index_stats_', i) = get_index_stats(index_stats_, i)

\* C30: an update changes only the stats of its own key; update_table_stats
\* replaces the whole entry of the table, column stats included.
C30_UpdatesFramed == [][UpdateFramed]_vars

\* update_table_stats without column stats on a table that had two of them,
\* beside another table and an index that are still there
C30_Witness ==
  /\ update.call = "update_table_stats"
  /\ update.table_name = "users"
  /\ update.had = {"id", "name"}
  /\ update.stats.column_stats = <<>>
  /\ get_column_stats(table_stats_, "users", "id") = NoStats
  /\ get_column_stats(table_stats_, "orders", "name") # NoStats
  /\ get_index_stats(index_stats_, "idx_users_id") # NoStats

----------------------------------------------------------------------------
(* CostEstimator and IndexSelector, src/planner/optimizer.cpp.  A cost is  *)
(* kept in tenths, so that 0.1 per row is a whole number.                  *)

\* Calls kept in asked
MaxAsked == 2

OrderByLists == {<<>>, <<AstLeafA>>, <<AstLeafA, AstLeafOne>>, <<AstLeafA, AstLeafOne, AstLeafA>>}

EstimatedRows == {0, 1, 10, 1000, 100000}

\* A sort cost that shares the rows among the columns
SharedSortCost(order_by, estimated_rows) ==
  3000 + Len(order_by) * 200 + estimated_rows \div (Len(order_by) + 1)

\* base_cost = 300.0; += order_by.size() * 20.0; += estimated_rows * 0.1
estimate_sort_cost(order_by, estimated_rows) ==
  3000 + Len(order_by) * 200 + estimated_rows

\* An index selector that names an index for every condition
ConditionIndex(table_name, condition) ==
  IF condition = Null THEN table_name ELSE <<>>

\* return ""
select_scan_index(table_name, condition) == <<>>

EstimatorInit ==
  /\ FrontEndIdle
  /\ PlannerIdle
  /\ AstIdle
  /\ StatsIdle
  /\ PoolIdle
  /\ asked = <<>>

EstimateSortCost ==
  /\ Len(asked) < MaxAsked
  /\ \E order_by \in OrderByLists, rows \in EstimatedRows :
       asked' = Append(asked, [call |-> "estimate_sort_cost", order_by |-> order_by,
                               estimated_rows |-> rows,
                               result |-> estimate_sort_cost(order_by, rows)])
  /\ UNCHANGED beside_estimator

SelectScanIndex ==
  /\ Len(asked) < MaxAsked
  /\ \E t \in {W("users"), W("t")}, condition \in AstExpressions \cup {Null} :
       asked' = Append(asked, [call |-> "select_scan_index", table_name |-> t,
                               condition |-> condition,
                               result |-> select_scan_index(t, condition)])
  /\ UNCHANGED beside_estimator

EstimatorNext ==
  \/ EstimateSortCost
  \/ SelectScanIndex

EstimatorSpec == EstimatorInit /\ [][EstimatorNext]_vars

SortCalls == {i \in 1..Len(asked) : asked[i].call = "estimate_sort_cost"}

\* C22: of two sort costs for the same order_by list the one for more rows
\* is not the smaller, and of two for the same rows the one for the longer
\* list is not the smaller.
C22_SortCostMonotone ==
  \A i \in SortCalls, j \in SortCalls :
    /\ (asked[i].order_by = asked[j].order_by
          /\ asked[i].estimated_rows <= asked[j].estimated_rows)
         => asked[i].result <= asked[j].result
    /\ (asked[i].estimated_rows = asked[j].estimated_rows
          /\ Len(asked[i].order_by) <= Len(asked[j].order_by))
         => asked[i].result <= asked[j].result

\* 1000 rows sorted on one column, then on three
C22_Witness ==
  /\ Len(asked) = 2
  /\ asked[1].call = "estimate_sort_cost" /\ asked[2].call = "estimate_sort_cost"
  /\ asked[1].estimated_rows = 1000 /\ asked[2].estimated_rows = 1000
  /\ Len(asked[1].order_by) = 1 /\ Len(asked[2].order_by) = 3
  /\ asked[1].result = 4200 /\ asked[2].result = 4600

\* C23: select_scan_index returns the empty name for every table and
\* condition, the null condition included.
C23_NoIndex ==
  \A i \in 1..Len(asked) :
    asked[i].call = "select_scan_index" => asked[i].result = <<>>

C23_Witness ==
  \E i \in 1..Len(asked) :
    /\ asked[i].call = "select_scan_index"
    /\ asked[i].table_name = W("users")
    /\ asked[i].condition = Null
    /\ asked[i].result = <<>>

----------------------------------------------------------------------------
(* ThreadPool, src/common/thread_pool.cpp: the worker threads, the monitor *)
(* thread and one thread that submits tasks, waits for them and stops the  *)
(* pool.  A step is what a thread does between two points where another    *)
(* thread can see or change what it works on: stats_mutex_ orders          *)
(* get_next_task, submit_task and the test of wait_all; the monitor's      *)
(* cleanup_timeout_tasks holds only the mutex of the queue it cleans, and  *)
(* stop holds none.  The adaptive scheduler is not enabled.                *)

\* Worker threads (config_.min_threads)
NumWorkers == 1

\* submit_task calls made
MaxSubmits == 2

\* Tasks a queue takes (config_.queue_size and the size of each queue)
QueueSize == 1

\* The last reading of the steady clock
MaxNow == 1

\* Passes of the monitor thread through cleanup_timeout_tasks
MaxCleanups == 1

Workers == 1..NumWorkers

\* CRITICAL, HIGH, NORMAL, LOW, BACKGROUND
Priorities == 1..5

\* The priorities of the tasks submitted
SubmittedPriorities == {1, 2}

Task(id, priority, deadline) == [id |-> id, priority |-> priority, deadline |-> deadline]

\* Task([](){}, TaskPriority::BACKGROUND, TaskType::BACKGROUND): its func is
\* not empty
DummyTask == Task(0, 5, MaxNow)

NoTask == [id |-> -1]

Counted(stats, counter, by) == [stats EXCEPT ![counter] = @ + by]

NonEmpty(qs) == {q \in Priorities : qs[q] # <<>>}

First(set) == CHOOSE q \in set : \A r \in set : q <= r

PoolInit ==
  /\ FrontEndIdle
  /\ PlannerIdle
  /\ AstIdle
  /\ StatsIdle
  /\ EstimatorIdle
  /\ running_ = TRUE
  /\ queues = [q \in Priorities |-> <<>>]
  /\ pstats = [total_queued_tasks |-> 0, active_threads |-> 0, total_completed_tasks |-> 0,
               total_failed_tasks |-> 0, total_timeout_tasks |-> 0]
  /\ stats_mutex_ = 0
  /\ wpc = [w \in Workers |-> "loop"]
  /\ wtask = [w \in Workers |-> NoTask]
  /\ wqueue = [w \in Workers |-> 0]
  /\ mon = [pc |-> "sleep", q |-> 1, valid_tasks |-> <<>>, now |-> 0, passes |-> 0]
  /\ cpc = "open"
  /\ accepted = 0
  /\ calls = 0
  /\ now = 0

\* The steady clock advances
Tick ==
  /\ cpc # "none"
  /\ now < MaxNow
  /\ now' = now + 1
  /\ UNCHANGED <<running_, queues, pstats, stats_mutex_, wpc, wtask, wqueue, mon, cpc,
                 accepted, calls>>
  /\ UNCHANGED beside_pool

\* The mutex of queue q is held by the monitor between its two steps on q
QueueMutexFree(q) == ~(mon.pc = "put" /\ mon.q = q)

\* get_next_task as worker w runs it, from locking stats_mutex_ to its return
get_next_task(w) ==
  /\ UNCHANGED <<running_, mon, cpc, accepted, calls, now>>
  /\ UNCHANGED beside_pool
  /\ \/ \* std::unique_lock lock(stats_mutex_), also when wait() returns
        /\ wpc[w] \in {"lock", "woken"}
        /\ stats_mutex_ = 0
        /\ stats_mutex_' = w
        /\ wpc' = [wpc EXCEPT ![w] = "pred"]
        /\ UNCHANGED <<queues, pstats, wtask, wqueue>>
     \/ \* the predicate of condition_.wait
        /\ wpc[w] = "pred"
        /\ wpc' = [wpc EXCEPT ![w] = IF NonEmpty(queues) # {} \/ ~running_
                                      THEN "running" ELSE "block"]
        /\ UNCHANGED <<queues, pstats, stats_mutex_, wtask, wqueue>>
     \/ \* the predicate was false: wait(lock) unlocks and blocks
        /\ wpc[w] = "block"
        /\ stats_mutex_' = 0
        /\ wpc' = [wpc EXCEPT ![w] = "waiting"]
        /\ UNCHANGED <<queues, pstats, wtask, wqueue>>
     \/ \* if (!running_.load()) return Task([](){}, ...)
        /\ wpc[w] = "running"
        /\ IF ~running_
           THEN /\ wtask' = [wtask EXCEPT ![w] = DummyTask]
                /\ stats_mutex_' = 0
                /\ wpc' = [wpc EXCEPT ![w] = "got"]
           ELSE /\ wpc' = [wpc EXCEPT ![w] = "scan"]
                /\ UNCHANGED <<stats_mutex_, wtask>>
        /\ UNCHANGED <<queues, pstats, wqueue>>
     \/ \* the first queue whose empty() is false
        /\ wpc[w] = "scan"
        /\ IF NonEmpty(queues) # {}
           THEN /\ wqueue' = [wqueue EXCEPT ![w] = First(NonEmpty(queues))]
                /\ wpc' = [wpc EXCEPT ![w] = "check"]
                /\ UNCHANGED <<stats_mutex_, wtask>>
           ELSE /\ wtask' = [wtask EXCEPT ![w] = DummyTask]
                /\ stats_mutex_' = 0
                /\ wpc' = [wpc EXCEPT ![w] = "got"]
                /\ UNCHANGED wqueue
        /\ UNCHANGED <<queues, pstats>>
     \/ \* check_queue: under the mutex of the queue, pop its top if it has one
        /\ wpc[w] = "check"
        /\ QueueMutexFree(wqueue[w])
        /\ IF queues[wqueue[w]] # <<>>
           THEN /\ wtask' = [wtask EXCEPT ![w] = queues[wqueue[w]][1]]
                /\ queues' = [queues EXCEPT ![wqueue[w]] = Tail(@)]
                /\ pstats' = Counted(pstats, "total_queued_tasks", -1)
           ELSE /\ wtask' = [wtask EXCEPT ![w] = DummyTask]
                /\ UNCHANGED <<queues, pstats>>
        /\ wpc' = [wpc EXCEPT ![w] = "popped"]
        /\ UNCHANGED <<stats_mutex_, wqueue>>
     \/ \* return of the task, the lock is released
        /\ wpc[w] = "popped"
        /\ stats_mutex_' = 0
        /\ wpc' = [wpc EXCEPT ![w] = "got"]
        /\ UNCHANGED <<queues, pstats, wtask, wqueue>>

\* The loop of worker_thread around get_next_task
worker_thread(w) ==
  /\ UNCHANGED <<running_, queues, stats_mutex_, wqueue, mon, cpc, accepted, calls, now>>
  /\ UNCHANGED beside_pool
  /\ \/ \* while (running_.load())
        /\ wpc[w] = "loop"
        /\ wpc' = [wpc EXCEPT ![w] = IF running_ THEN "lock" ELSE "exited"]
        /\ UNCHANGED <<pstats, wtask>>
     \/ \* if (task.func) stats_.active_threads++
        /\ wpc[w] = "got"
        /\ pstats' = Counted(pstats, "active_threads", 1)
        /\ wpc' = [wpc EXCEPT ![w] = "deadline"]
        /\ UNCHANGED wtask
     \/ \* now() > task.deadline: total_timeout_tasks++ and continue; the
        \* deadline the constructor gives the dummy task is not in src/
        /\ wpc[w] = "deadline"
        /\ \E late \in IF wtask[w].id = 0 THEN BOOLEAN ELSE {now > wtask[w].deadline} :
             IF late
             THEN /\ pstats' = Counted(pstats, "total_timeout_tasks", 1)
                  /\ wpc' = [wpc EXCEPT ![w] = "loop"]
                  /\ wtask' = [wtask EXCEPT ![w] = NoTask]
             ELSE /\ wpc' = [wpc EXCEPT ![w] = "limits"]
                  /\ UNCHANGED <<pstats, wtask>>
     \/ \* !check_resource_limits(): total_failed_tasks++ and continue
        /\ wpc[w] = "limits"
        /\ \E within \in BOOLEAN :
             IF within
             THEN /\ wpc' = [wpc EXCEPT ![w] = "run"]
                  /\ UNCHANGED <<pstats, wtask>>
             ELSE /\ pstats' = Counted(pstats, "total_failed_tasks", 1)
                  /\ wpc' = [wpc EXCEPT ![w] = "loop"]
                  /\ wtask' = [wtask EXCEPT ![w] = NoTask]
     \/ \* task.func() returns or throws
        /\ wpc[w] = "run"
        /\ \E returns \in IF wtask[w].id = 0 THEN {TRUE} ELSE BOOLEAN :
             pstats' = Counted(pstats, IF returns THEN "total_completed_tasks"
                                       ELSE "total_failed_tasks", 1)
        /\ wpc' = [wpc EXCEPT ![w] = "after"]
        /\ UNCHANGED wtask
     \/ \* stats_.active_threads--
        /\ wpc[w] = "after"
        /\ pstats' = Counted(pstats, "active_threads", -1)
        /\ wpc' = [wpc EXCEPT ![w] = "loop"]
        /\ wtask' = [wtask EXCEPT ![w] = NoTask]

\* The workers blocked in condition_.wait
Waiting == {w \in Workers : wpc[w] = "waiting"}

\* submit_task(task): under stats_mutex_ and the mutex of the queue
submit_task ==
  /\ cpc = "open"
  /\ running_
  /\ calls < MaxSubmits
  /\ stats_mutex_ = 0
  /\ \E priority \in SubmittedPriorities, deadline \in now..MaxNow :
       /\ QueueMutexFree(priority)
       /\ calls' = calls + 1
       /\ IF Len(queues[priority]) >= QueueSize
          THEN \* throw std::runtime_error
               UNCHANGED <<queues, pstats, accepted, wpc>>
          ELSE /\ queues' = [queues EXCEPT ![priority] =
                               Append(@, Task(calls + 1, priority, deadline))]
               /\ pstats' = Counted(pstats, "total_queued_tasks", 1)
               /\ accepted' = accepted + 1
               /\ \* condition_.notify_one()
                  IF Waiting = {} THEN UNCHANGED wpc
                  ELSE \E w \in Waiting : wpc' = [wpc EXCEPT ![w] = "woken"]
  /\ UNCHANGED <<running_, stats_mutex_, wtask, wqueue, mon, cpc, now>>
  /\ UNCHANGED beside_pool

\* The tasks of a sequence whose deadline has not passed at time t
ValidTasks(tasks, t) == SelectSeq(tasks, LAMBDA task : t <= task.deadline)

\* The monitor goes from queue q to the next one, or back to sleep
NextQueue(m) ==
  IF m.q < 5
  THEN [m EXCEPT !.pc = "take", !.q = @ + 1, !.valid_tasks = <<>>]
  ELSE [m EXCEPT !.pc = "sleep", !.q = 1, !.valid_tasks = <<>>]

\* monitor_thread and its cleanup_timeout_tasks, queue by queue
monitor_thread ==
  /\ UNCHANGED <<running_, pstats, stats_mutex_, wpc, wtask, wqueue, cpc, accepted, calls, now>>
  /\ UNCHANGED beside_pool
  /\ \/ \* while (running_.load()): sleep, then cleanup_timeout_tasks reads now
        /\ mon.pc = "sleep"
        /\ running_ => mon.passes < MaxCleanups
        /\ mon' = IF running_
                  THEN [mon EXCEPT !.pc = "take", !.q = 1, !.now = now, !.passes = @ + 1]
                  ELSE [mon EXCEPT !.pc = "exited"]
        /\ UNCHANGED queues
     \/ \* cleanup_queue: lock the queue, pop every task, keep the valid ones
        /\ mon.pc = "take"
        /\ IF queues[mon.q] = <<>>
           THEN /\ mon' = NextQueue(mon)
                /\ UNCHANGED queues
           ELSE /\ mon' = [mon EXCEPT !.pc = "put",
                                      !.valid_tasks = ValidTasks(queues[mon.q], mon.now)]
                /\ queues' = [queues EXCEPT ![mon.q] = <<>>]
     \/ \* push the valid tasks back, unlock, go to the next queue
        /\ mon.pc = "put"
        /\ queues' = [queues EXCEPT ![mon.q] = mon.valid_tasks]
        /\ mon' = NextQueue(mon)

\* wait_all: under stats_mutex_, test the two counters; sleep and test again
wait_all ==
  /\ cpc \in {"open", "waiting"}
  /\ running_
  /\ stats_mutex_ = 0
  /\ cpc' = IF pstats.total_queued_tasks = 0 /\ pstats.active_threads = 0
            THEN "returned" ELSE "waiting"
  /\ UNCHANGED <<running_, queues, pstats, stats_mutex_, wpc, wtask, wqueue, mon,
                 accepted, calls, now>>
  /\ UNCHANGED beside_pool

\* The thread goes on after wait_all has returned
Resume ==
  /\ cpc = "returned"
  /\ cpc' = "open"
  /\ UNCHANGED <<running_, queues, pstats, stats_mutex_, wpc, wtask, wqueue, mon,
                 accepted, calls, now>>
  /\ UNCHANGED beside_pool

\* stop: running_.store(false), then notify_all, then the joins
stop ==
  /\ UNCHANGED <<queues, pstats, stats_mutex_, wtask, wqueue, mon, accepted, calls, now>>
  /\ UNCHANGED beside_pool
  /\ \/ /\ cpc = "open"
        /\ running_
        /\ running_' = FALSE
        /\ cpc' = "notify"
        /\ UNCHANGED wpc
     \/ /\ cpc = "notify"
        /\ wpc' = [w \in Workers |-> IF wpc[w] = "waiting" THEN "woken" ELSE wpc[w]]
        /\ cpc' = "join"
        /\ UNCHANGED running_
     \/ /\ cpc = "join"
        /\ \A w \in Workers : wpc[w] = "exited"
        /\ mon.pc = "exited"
        /\ cpc' = "stopped"
        /\ UNCHANGED <<running_, wpc>>

PoolNext ==
  \/ \E w \in Workers : worker_thread(w)
  \/ \E w \in Workers : get_next_task(w)
  \/ submit_task
  \/ monitor_thread
  \/ wait_all
  \/ Resume
  \/ stop
  \/ Tick

PoolSpec == PoolInit /\ [][PoolNext]_vars

\* Every thread that can take a step takes one; nothing makes the using
\* thread submit a task or the clock advance
PoolLiveSpec ==
  /\ PoolSpec
  /\ \A w \in Workers : WF_vars(worker_thread(w)) /\ WF_vars(get_next_task(w))
  /\ WF_vars(monitor_thread)
  /\ WF_vars(wait_all)
  /\ WF_vars(stop)

\* The tasks that are queued: in a queue, or in the valid_tasks of the
\* monitor on their way back to it
Queued ==
  {queues[q][i] : <<q, i>> \in {<<q, i>> \in Priorities \X (1..QueueSize) : i <= Len(queues[q])}}
    \cup {mon.valid_tasks[i] : i \in 1..Len(mon.valid_tasks)}

\* The workers that hold a task they have taken from a queue and not yet run
Holding == {w \in Workers : wtask[w].id > 0 /\ wpc[w] \in {"popped", "got", "deadline", "limits", "run"}}

\* C25: when wait_all() returns, no accepted task is queued, executing, or
\* dequeued and not yet started.
C25_WaitAllMeansDone ==
  cpc = "returned" => (Queued = {} /\ Holding = {})

\* wait_all returned between the return of get_next_task and active_threads++
C25_Witness ==
  /\ cpc = "returned"
  /\ accepted = 1
  /\ wpc[1] = "got"
  /\ wtask[1].id = 1
  /\ pstats.total_queued_tasks = 0
  /\ pstats.active_threads = 0

\* C26: once stop() has stored running_ = false, it returns: every worker
\* has left its loop and has been joined.
C26_StopTerminates == (cpc = "notify") ~> (cpc = "stopped")

\* The worker tested the predicate before the store and blocked after
\* notify_all
C26_Witness ==
  /\ cpc = "join"
  /\ ~running_
  /\ wpc[1] = "waiting"
  /\ mon.pc = "exited"

\* C27: a wait_all() that has begun to wait returns.
C27_WaitAllReturns == (cpc = "waiting") ~> (cpc = "returned")

\* Nothing is queued or running and wait_all still waits: the task timed
\* out and active_threads was not decremented
C27_Witness ==
  /\ cpc = "waiting"
  /\ Queued = {}
  /\ wpc[1] = "waiting"
  /\ wtask[1] = NoTask
  /\ pstats.total_queued_tasks = 0
  /\ pstats.active_threads = 1
  /\ pstats.total_timeout_tasks = 1

\* No worker is between taking a task and having accounted for it
NoWorkerExecuting ==
  \A w \in Workers : wpc[w] \in {"loop", "lock", "woken", "pred", "block", "waiting",
                                  "running", "scan", "check", "exited"}

\* C28: whenever no worker is executing a task, the accepted tasks are those
\* still queued plus those counted completed, failed or timed out.
C28_TasksAccounted ==
  NoWorkerExecuting =>
    accepted = Cardinality(Queued) + pstats.total_completed_tasks
                 + pstats.total_failed_tasks + pstats.total_timeout_tasks

\* The monitor removed the one task from its queue: it is in no counter
C28_Witness ==
  /\ NoWorkerExecuting
  /\ accepted = 1
  /\ Queued = {}
  /\ mon.pc = "sleep"
  /\ mon.passes = 1
  /\ pstats.total_queued_tasks = 1
  /\ pstats.total_completed_tasks + pstats.total_failed_tasks + pstats.total_timeout_tasks = 0

\* C29: a worker that has taken a task from a queue took it when no task of
\* a higher priority was queued.
C29_HighestPriorityFirst ==
  \A w \in Workers :
    (wpc[w] = "popped" /\ wtask[w].id > 0) =>
      \A task \in Queued : task.priority >= wtask[w].priority

\* The worker took the HIGH task while the monitor held the CRITICAL one
C29_Witness ==
  /\ wpc[1] = "popped"
  /\ wtask[1].id > 0
  /\ wtask[1].priority = 2
  /\ mon.pc = "put"
  /\ mon.q = 1
  /\ Len(mon.valid_tasks) = 1
  /\ mon.valid_tasks[1].priority = 1

=============================================================================
